---- MODULE Spec2Model ----
(***************************************************************************)
(* Model of the Phonenix-AI configuration-to-prompt pipeline               *)
(* (src/src/phonenix_agent/config.py, src/src/utils/prompt.py).            *)
(*                                                                         *)
(* Python values are tagged records.  Mutable containers (lists, dicts,    *)
(* objects) carry the identity `id` of the Python object, so that two      *)
(* references to the same object are two records with the same id; an      *)
(* in-place change of an object is applied to every record with its id.    *)
(***************************************************************************)
EXTENDS Integers, Sequences, FiniteSets, TLC

VARIABLES
    store,      \* the caller's variables: name -> Python value (or a raised exception)
    builder,    \* AgentConfigBuilder._config of the one builder, a dict value
    calls,      \* the with_X calls made on the builder: how many, and the last
                \* argument given to each setter
    mutations,  \* the number of in-place changes made so far
    last,       \* the operation performed by the last step
    call,       \* the telephone call of one job: the agent, the position of each
                \* coroutine, and the requests made to the session and the server
    stream      \* one run of process_structured_output: the chunks to come, the
                \* generator's locals and the strings yielded

vars == <<store, builder, calls, mutations, last, call, stream>>

\* No job and no generator: the state of the configuration library alone.
NoCall == [pc |-> "none"]
NoStream == [pc |-> "none"]

(***************************************************************************)
(* Bounds of the model.                                                    *)
(***************************************************************************)
MaxLen == 2         \* longest list among the sampled inputs
MaxCalls == 2       \* with_X calls on the builder
MaxMutations == 1   \* in-place changes in one behaviour
MaxConfigs == 2     \* configs a caller constructs where sharing is examined
MaxTools == 1       \* function tools the session invokes in one call
MaxChunk == 3       \* tokens in one chunk of the LLM's answer
MaxText == 2        \* letters in a string of the LLM's answer

(***************************************************************************)
(* Python values.                                                          *)
(***************************************************************************)
PyNone == [tag |-> "None"]
PyStr(x) == [tag |-> "str", s |-> x]
PyInt(x) == [tag |-> "int", n |-> x]
PyBool(x) == [tag |-> "bool", b |-> x]
PyList(i, xs) == [tag |-> "list", id |-> i, items |-> xs]
PyDict(i, m) == [tag |-> "dict", id |-> i, map |-> m]
PyObject(cls, i, attrs) == [tag |-> cls, id |-> i, f |-> attrs]
Raised(e) == [tag |-> "raise", exc |-> e]
\* a datetime.date, a value of type Any that is no JSON value
PyDate(x) == [tag |-> "date", iso |-> x]

ClassTags ==
    {"CompanyDetails", "AgentPersonality", "UserContext", "CallContext", "AgentConfig"}

IsRaised(v) == v.tag = "raise"
IsDict(v) == v.tag = "dict"

\* bool(v): None, "", 0, False, [] and {} are falsy; an object of a class
\* without __bool__/__len__ is truthy.
Truthy(v) ==
    CASE v.tag = "None" -> FALSE
      [] v.tag = "str" -> v.s # ""
      [] v.tag = "int" -> v.n # 0
      [] v.tag = "bool" -> v.b
      [] v.tag = "list" -> Len(v.items) > 0
      [] v.tag = "dict" -> DOMAIN v.map # {}
      [] OTHER -> TRUE

\* A faulty `a or b`: the fallback is never taken.
PyOr_first(a, b) == a

\* `a or b`
PyOr(a, b) == IF Truthy(a) THEN a ELSE b

\* A list / dict literal evaluated while the object `o` is being built: a new
\* Python object, identified by its owner and the field it is made for.
NewList(o, field) == PyList(o \o <<field>>, <<>>)
NewDict(o, field) == PyDict(o \o <<field>>, <<>>)

\* Faulty dict.get(key, default): the default is dropped (dict.get(key)); the
\* default is "" whatever was given; a falsy value counts as missing
\* (dict.get(key) or default).
DictGetD_no_default(m, k, default) == IF k \in DOMAIN m THEN m[k] ELSE PyNone
DictGetD_empty_default(m, k, default) == IF k \in DOMAIN m THEN m[k] ELSE PyStr("")
DictGetD_or_default(m, k, default) ==
    IF k \in DOMAIN m /\ m[k] \notin {PyNone, PyStr("")} THEN m[k] ELSE default

\* A faulty dict.get(key): the key is never found.
DictGet_never_found(m, k) == PyNone

\* dict.get(key, default) and dict.get(key), on the mapping of a dict value.
DictGetD(m, k, default) == IF k \in DOMAIN m THEN m[k] ELSE default
DictGet(m, k) == DictGetD(m, k, PyNone)

\* Keyword-argument binding of a call: the value given, else the parameter's default.
Arg(kw, k, default) == IF k \in DOMAIN kw THEN kw[k] ELSE default

\* Binding a call's keyword arguments to a signature fails with TypeError when a
\* required parameter is missing or a keyword is not a parameter.
BindsTo(kw, required, params) ==
    required \subseteq DOMAIN kw /\ DOMAIN kw \subseteq params

(***************************************************************************)
(* class AgentPersonality                                                  *)
(***************************************************************************)
AgentPersonalityParams ==
    {"traits", "communication_style", "tone", "expertise_level", "response_speed"}

AgentPersonality_init(o, kw) ==
    IF ~BindsTo(kw, {"traits", "communication_style"}, AgentPersonalityParams)
    THEN Raised("TypeError")
    ELSE PyObject("AgentPersonality", o,
            [traits |-> kw.traits,
             communication_style |-> kw.communication_style,
             tone |-> PyOr(Arg(kw, "tone", PyNone), PyStr("professional")),
             expertise_level |-> PyOr(Arg(kw, "expertise_level", PyNone), PyStr("expert")),
             response_speed |->
                 PyOr(Arg(kw, "response_speed", PyNone), PyStr("conversational"))])

AgentPersonality_to_dict(o, self) ==
    PyDict(o,
        [traits |-> self.f.traits,
         communication_style |-> self.f.communication_style,
         tone |-> self.f.tone,
         expertise_level |-> self.f.expertise_level,
         response_speed |-> self.f.response_speed])

AgentPersonality_from_dict(o, data) ==
    IF ~IsDict(data) THEN Raised("AttributeError")
    ELSE AgentPersonality_init(o,
            [traits |-> DictGetD(data.map, "traits", NewList(o, "traits")),
             communication_style |->
                 DictGetD(data.map, "communication_style", PyStr("professional")),
             tone |-> DictGet(data.map, "tone"),
             expertise_level |-> DictGet(data.map, "expertise_level"),
             response_speed |-> DictGet(data.map, "response_speed")])

(***************************************************************************)
(* class CompanyDetails                                                    *)
(***************************************************************************)
CompanyDetailsParams ==
    {"name", "description", "specialties", "location", "years_in_business",
     "website", "phone", "email", "mission_statement", "values"}

CompanyDetails_init(o, kw) ==
    IF ~BindsTo(kw, {"name"}, CompanyDetailsParams)
    THEN Raised("TypeError")
    ELSE PyObject("CompanyDetails", o,
            [name |-> kw.name,
             description |-> Arg(kw, "description", PyNone),
             specialties |-> PyOr(Arg(kw, "specialties", PyNone), NewList(o, "specialties")),
             location |-> Arg(kw, "location", PyNone),
             years_in_business |-> Arg(kw, "years_in_business", PyNone),
             website |-> Arg(kw, "website", PyNone),
             phone |-> Arg(kw, "phone", PyNone),
             email |-> Arg(kw, "email", PyNone),
             mission_statement |-> Arg(kw, "mission_statement", PyNone),
             values |-> PyOr(Arg(kw, "values", PyNone), NewList(o, "values"))])

CompanyDetails_to_dict(o, self) ==
    PyDict(o,
        [name |-> self.f.name,
         description |-> self.f.description,
         specialties |-> self.f.specialties,
         location |-> self.f.location,
         years_in_business |-> self.f.years_in_business,
         website |-> self.f.website,
         phone |-> self.f.phone,
         email |-> self.f.email,
         mission_statement |-> self.f.mission_statement,
         values |-> self.f.values])

CompanyDetails_from_dict(o, data) ==
    IF ~IsDict(data) THEN Raised("AttributeError")
    ELSE CompanyDetails_init(o,
            [name |-> DictGetD(data.map, "name", PyStr("")),
             description |-> DictGet(data.map, "description"),
             specialties |-> DictGet(data.map, "specialties"),
             location |-> DictGet(data.map, "location"),
             years_in_business |-> DictGet(data.map, "years_in_business"),
             website |-> DictGet(data.map, "website"),
             phone |-> DictGet(data.map, "phone"),
             email |-> DictGet(data.map, "email"),
             mission_statement |-> DictGet(data.map, "mission_statement"),
             values |-> DictGet(data.map, "values")])

(***************************************************************************)
(* class UserContext                                                       *)
(***************************************************************************)
UserContextParams ==
    {"name", "email", "phone", "preferences", "previous_interactions", "notes",
     "demographics", "pain_points", "goals", "budget", "timeline"}

UserContext_init(o, kw) ==
    IF ~BindsTo(kw, {}, UserContextParams)
    THEN Raised("TypeError")
    ELSE PyObject("UserContext", o,
            [name |-> Arg(kw, "name", PyNone),
             email |-> Arg(kw, "email", PyNone),
             phone |-> Arg(kw, "phone", PyNone),
             preferences |-> PyOr(Arg(kw, "preferences", PyNone), NewDict(o, "preferences")),
             previous_interactions |->
                 PyOr(Arg(kw, "previous_interactions", PyNone),
                      NewList(o, "previous_interactions")),
             notes |-> Arg(kw, "notes", PyNone),
             demographics |->
                 PyOr(Arg(kw, "demographics", PyNone), NewDict(o, "demographics")),
             pain_points |-> PyOr(Arg(kw, "pain_points", PyNone), NewList(o, "pain_points")),
             goals |-> PyOr(Arg(kw, "goals", PyNone), NewList(o, "goals")),
             budget |-> Arg(kw, "budget", PyNone),
             timeline |-> Arg(kw, "timeline", PyNone)])

UserContext_to_dict(o, self) ==
    PyDict(o,
        [name |-> self.f.name,
         email |-> self.f.email,
         phone |-> self.f.phone,
         preferences |-> self.f.preferences,
         previous_interactions |-> self.f.previous_interactions,
         notes |-> self.f.notes,
         demographics |-> self.f.demographics,
         pain_points |-> self.f.pain_points,
         goals |-> self.f.goals,
         budget |-> self.f.budget,
         timeline |-> self.f.timeline])

UserContext_from_dict(o, data) ==
    IF ~IsDict(data) THEN Raised("AttributeError")
    ELSE UserContext_init(o,
            [name |-> DictGet(data.map, "name"),
             email |-> DictGet(data.map, "email"),
             phone |-> DictGet(data.map, "phone"),
             preferences |-> DictGet(data.map, "preferences"),
             previous_interactions |-> DictGet(data.map, "previous_interactions"),
             notes |-> DictGet(data.map, "notes"),
             demographics |-> DictGet(data.map, "demographics"),
             pain_points |-> DictGet(data.map, "pain_points"),
             goals |-> DictGet(data.map, "goals"),
             budget |-> DictGet(data.map, "budget"),
             timeline |-> DictGet(data.map, "timeline")])

(***************************************************************************)
(* class CallContext                                                       *)
(***************************************************************************)
CallContextParams ==
    {"purpose", "priority", "expected_duration", "follow_up_required",
     "success_metrics", "call_script", "key_points"}

CallContext_init(o, kw) ==
    IF ~BindsTo(kw, {"purpose"}, CallContextParams)
    THEN Raised("TypeError")
    ELSE PyObject("CallContext", o,
            [purpose |-> kw.purpose,
             priority |-> PyOr(Arg(kw, "priority", PyNone), PyStr("normal")),
             expected_duration |-> Arg(kw, "expected_duration", PyNone),
             follow_up_required |->
                 PyOr(Arg(kw, "follow_up_required", PyNone), PyBool(FALSE)),
             success_metrics |->
                 PyOr(Arg(kw, "success_metrics", PyNone), NewList(o, "success_metrics")),
             call_script |-> Arg(kw, "call_script", PyNone),
             key_points |-> PyOr(Arg(kw, "key_points", PyNone), NewList(o, "key_points"))])

CallContext_to_dict(o, self) ==
    PyDict(o,
        [purpose |-> self.f.purpose,
         priority |-> self.f.priority,
         expected_duration |-> self.f.expected_duration,
         follow_up_required |-> self.f.follow_up_required,
         success_metrics |-> self.f.success_metrics,
         call_script |-> self.f.call_script,
         key_points |-> self.f.key_points])
\* from_dict that passes the mapping's keys as keyword arguments.
CallContext_from_dict_strict(o, data) ==
    IF ~IsDict(data) THEN Raised("AttributeError") ELSE CallContext_init(o, data.map)

CallContext_from_dict(o, data) ==
    IF ~IsDict(data) THEN Raised("AttributeError")
    ELSE CallContext_init(o,
            [purpose |-> DictGetD(data.map, "purpose", PyStr("")),
             priority |-> DictGet(data.map, "priority"),
             expected_duration |-> DictGet(data.map, "expected_duration"),
             follow_up_required |-> DictGet(data.map, "follow_up_required"),
             success_metrics |-> DictGet(data.map, "success_metrics"),
             call_script |-> DictGet(data.map, "call_script"),
             key_points |-> DictGet(data.map, "key_points")])

(***************************************************************************)
(* class AgentConfig                                                       *)
(***************************************************************************)
AgentConfigParams ==
    {"agent_name", "company_details", "agent_personality", "call_context",
     "user_context", "industry", "custom_instructions", "language", "timezone",
     "compliance_requirements"}

AgentConfigRequired ==
    {"agent_name", "company_details", "agent_personality", "call_context", "user_context"}

AgentConfig_init(o, kw) ==
    IF ~BindsTo(kw, AgentConfigRequired, AgentConfigParams)
    THEN Raised("TypeError")
    ELSE PyObject("AgentConfig", o,
            [agent_name |-> kw.agent_name,
             company_details |-> kw.company_details,
             agent_personality |-> kw.agent_personality,
             call_context |-> kw.call_context,
             user_context |-> kw.user_context,
             industry |-> Arg(kw, "industry", PyStr("real estate")),
             custom_instructions |-> Arg(kw, "custom_instructions", PyNone),
             language |-> Arg(kw, "language", PyStr("en")),
             timezone |-> Arg(kw, "timezone", PyNone),
             compliance_requirements |->
                 PyOr(Arg(kw, "compliance_requirements", PyNone),
                      NewList(o, "compliance_requirements"))])

\* entity.to_dict(): the method of the entity's class; a value that is no entity
\* has no to_dict attribute.
Entity_to_dict(o, e) ==
    CASE e.tag = "CompanyDetails" -> CompanyDetails_to_dict(o, e)
      [] e.tag = "AgentPersonality" -> AgentPersonality_to_dict(o, e)
      [] e.tag = "CallContext" -> CallContext_to_dict(o, e)
      [] e.tag = "UserContext" -> UserContext_to_dict(o, e)
      [] OTHER -> Raised("AttributeError")

AgentConfig_to_dict(o, self) ==
    LET company_details == Entity_to_dict(o \o <<"company_details">>, self.f.company_details)
        agent_personality ==
            Entity_to_dict(o \o <<"agent_personality">>, self.f.agent_personality)
        call_context == Entity_to_dict(o \o <<"call_context">>, self.f.call_context)
        user_context == Entity_to_dict(o \o <<"user_context">>, self.f.user_context)
    IN  IF \E d \in {company_details, agent_personality, call_context, user_context} :
              IsRaised(d)
        THEN Raised("AttributeError")
        ELSE PyDict(o,
                [agent_name |-> self.f.agent_name,
                 company_details |-> company_details,
                 agent_personality |-> agent_personality,
                 call_context |-> call_context,
                 user_context |-> user_context,
                 industry |-> self.f.industry,
                 custom_instructions |-> self.f.custom_instructions,
                 language |-> self.f.language,
                 timezone |-> self.f.timezone,
                 compliance_requirements |-> self.f.compliance_requirements])

AgentConfig_from_dict(o, data) ==
    IF ~IsDict(data) THEN Raised("AttributeError")
    ELSE
    LET company_details ==
            CompanyDetails_from_dict(o \o <<"company_details">>,
                DictGetD(data.map, "company_details", NewDict(o, "company_details")))
        agent_personality ==
            AgentPersonality_from_dict(o \o <<"agent_personality">>,
                DictGetD(data.map, "agent_personality", NewDict(o, "agent_personality")))
        call_context ==
            CallContext_from_dict(o \o <<"call_context">>,
                DictGetD(data.map, "call_context", NewDict(o, "call_context")))
        user_context ==
            UserContext_from_dict(o \o <<"user_context">>,
                DictGetD(data.map, "user_context", NewDict(o, "user_context")))
    IN  IF \E e \in {company_details, agent_personality, call_context, user_context} :
              IsRaised(e)
        THEN Raised("AttributeError")
        ELSE AgentConfig_init(o,
                [agent_name |-> DictGetD(data.map, "agent_name", PyStr("Professional Assistant")),
                 company_details |-> company_details,
                 agent_personality |-> agent_personality,
                 call_context |-> call_context,
                 user_context |-> user_context,
                 industry |-> DictGetD(data.map, "industry", PyStr("real estate")),
                 custom_instructions |-> DictGet(data.map, "custom_instructions"),
                 language |-> DictGetD(data.map, "language", PyStr("en")),
                 timezone |-> DictGet(data.map, "timezone"),
                 compliance_requirements |-> DictGet(data.map, "compliance_requirements")])

\* A faulty adapter: the agent_config mapping is read as a canonical mapping.
AgentConfig_from_legacy_metadata_canonical(o, metadata) ==
    IF ~IsDict(metadata) THEN Raised("AttributeError")
    ELSE AgentConfig_from_dict(o, DictGetD(metadata.map, "agent_config",
                                           NewDict(o, "agent_config")))

AgentConfig_from_legacy_metadata(o, metadata) ==
    IF ~IsDict(metadata) THEN Raised("AttributeError")
    ELSE
    LET agent_config == DictGetD(metadata.map, "agent_config", NewDict(o, "agent_config"))
        user_details == DictGetD(metadata.map, "user_details", NewDict(o, "user_details"))
    IN  IF ~IsDict(agent_config) THEN Raised("AttributeError")
        ELSE
        LET company_details ==
                DictGetD(agent_config.map, "company_details", NewDict(o, "company_details"))
            agent_personality ==
                DictGetD(agent_config.map, "agent_personality",
                         NewDict(o, "agent_personality"))
        IN  IF ~IsDict(company_details) \/ ~IsDict(agent_personality) \/ ~IsDict(user_details)
            THEN Raised("AttributeError")
            ELSE AgentConfig_init(o,
                    [agent_name |->
                         DictGetD(agent_config.map, "agent_name",
                                  PyStr("Professional Assistant")),
                     company_details |->
                         CompanyDetails_init(o \o <<"company_details">>,
                            [name |->
                                 DictGetD(agent_config.map, "company_name",
                                          PyStr("Our Company")),
                             description |-> DictGet(company_details.map, "description"),
                             specialties |-> DictGet(company_details.map, "specialties"),
                             location |-> DictGet(company_details.map, "location"),
                             years_in_business |->
                                 DictGet(company_details.map, "years_in_business")]),
                     agent_personality |->
                         AgentPersonality_init(o \o <<"agent_personality">>,
                            [traits |->
                                 DictGetD(agent_personality.map, "traits",
                                    PyList(o \o <<"agent_personality", "traits">>,
                                           <<"professional", "friendly", "consultative">>)),
                             communication_style |->
                                 DictGetD(agent_personality.map, "communication_style",
                                          PyStr("warm and professional"))]),
                     call_context |->
                         CallContext_init(o \o <<"call_context">>,
                            [purpose |->
                                 DictGetD(metadata.map, "call_purpose",
                                          PyStr("general inquiry"))]),
                     user_context |->
                         UserContext_init(o \o <<"user_context">>,
                            [name |-> DictGet(user_details.map, "name"),
                             email |-> DictGet(user_details.map, "email"),
                             phone |-> DictGet(user_details.map, "phone"),
                             preferences |-> DictGet(user_details.map, "preferences"),
                             previous_interactions |->
                                 DictGet(user_details.map, "previous_interactions"),
                             notes |-> DictGet(user_details.map, "notes")]),
                     industry |-> DictGetD(agent_config.map, "industry", PyStr("real estate")),
                     custom_instructions |->
                         DictGet(agent_config.map, "custom_instructions")])

(***************************************************************************)
(* class AgentConfigBuilder: `b` is the value of self._config.             *)
(***************************************************************************)
\* d[k] = v
DictSet(m, k, v) == [x \in DOMAIN m \cup {k} |-> IF x = k THEN v ELSE m[x]]

AgentConfigBuilder_init(o) == PyDict(o, <<>>)

\* A faulty setter: self._config.setdefault(key, value), the first write wins.
with_scalar_setdefault(b, key, value) ==
    [b EXCEPT !.map = DictSet(b.map, key, IF key \in DOMAIN b.map THEN b.map[key] ELSE value)]

\* self._config[key] = value
with_scalar(b, key, value) == [b EXCEPT !.map = DictSet(b.map, key, value)]

\* self._config[key] = entity.to_dict(); `o` identifies the dict to_dict returns.
with_entity(b, key, entity, o) ==
    LET d == Entity_to_dict(o, entity)
    IN  IF IsRaised(d) THEN d ELSE [b EXCEPT !.map = DictSet(b.map, key, d)]

\* A faulty with_personality: the mapping is stored under the company's key.
with_personality_under_company(b, personality, o) ==
    with_entity(b, "company_details", personality, o)

with_agent_name(b, name) == with_scalar(b, "agent_name", name)
with_company(b, company_details, o) == with_entity(b, "company_details", company_details, o)
with_personality(b, personality, o) == with_entity(b, "agent_personality", personality, o)
with_call_context(b, call_context, o) == with_entity(b, "call_context", call_context, o)
with_user_context(b, user_context, o) == with_entity(b, "user_context", user_context, o)
with_industry(b, industry) == with_scalar(b, "industry", industry)
with_custom_instructions(b, instructions) ==
    with_scalar(b, "custom_instructions", instructions)
\* A faulty with_language: the value is stored under the timezone's key.
with_language_as_timezone(b, language) == with_scalar(b, "timezone", language)
with_language(b, language) == with_scalar(b, "language", language)
with_timezone(b, timezone) == with_scalar(b, "timezone", timezone)
with_compliance_requirements(b, requirements) ==
    with_scalar(b, "compliance_requirements", requirements)

build(o, b) == AgentConfig_from_dict(o, b)

(***************************************************************************)
(* PersonalityTemplates and CompanyTemplates: each call returns a new      *)
(* object `o`.                                                             *)
(***************************************************************************)
PersonalityTemplates_technical_expert(o) ==
    AgentPersonality_init(o,
        [traits |-> PyList(o \o <<"traits">>,
                           <<"technical", "precise", "logical", "detail-oriented">>),
         communication_style |-> PyStr("clear, technical, and data-driven"),
         tone |-> PyStr("professional"),
         expertise_level |-> PyStr("expert"),
         response_speed |-> PyStr("methodical")])

CompanyTemplates_insurance_company(o) ==
    CompanyDetails_init(o,
        [name |-> PyStr("SecureLife Insurance"),
         description |->
             PyStr("Comprehensive insurance solutions for individuals and families"),
         specialties |-> PyList(o \o <<"specialties">>,
                                <<"life insurance", "health insurance", "auto insurance",
                                  "home insurance">>),
         location |-> PyStr("California"),
         years_in_business |-> PyInt(8),
         mission_statement |-> PyStr("Protecting what matters most"),
         values |-> PyList(o \o <<"values">>, <<"trust", "protection", "peace of mind">>)])

(***************************************************************************)
(* class PromptBuilder (src/src/utils/prompt.py).                          *)
(*                                                                         *)
(* A text is the sequence of its pieces: every literal of the template and *)
(* every interpolated value is one piece, whitespace between the lines of  *)
(* the template is a piece of its own, and the empty string has no piece.  *)
(* Sampled values hold no comma and no leading or trailing whitespace.     *)
(***************************************************************************)
Indent == "\n            "
Blank == "\n\n            "
IsSpace(piece) == piece \in {Indent, Blank, "\n", "\n        ", " "}

RECURSIVE Flatten(_)
Flatten(texts) == IF texts = <<>> THEN <<>> ELSE Head(texts) \o Flatten(Tail(texts))

\* sep.join(texts), each of texts a text
RECURSIVE JoinTexts(_, _)
JoinTexts(sep, texts) ==
    IF texts = <<>> THEN <<>>
    ELSE IF Len(texts) = 1 THEN texts[1]
    ELSE texts[1] \o <<sep>> \o JoinTexts(sep, Tail(texts))

Piece(x) == IF x = "" THEN <<>> ELSE <<x>>

\* A faulty join: the separator is "; " whatever was asked for.
Join_semicolons(sep, items) == JoinTexts("; ", [j \in 1..Len(items) |-> Piece(items[j])])

\* sep.join(items) of a list of str
Join(sep, items) == JoinTexts(sep, [j \in 1..Len(items) |-> Piece(items[j])])

\* The keys of a mapping, in one fixed order.
RECURSIVE KeySeq(_)
KeySeq(keys) ==
    IF keys = {} THEN <<>>
    ELSE LET k == CHOOSE x \in keys : TRUE IN <<k>> \o KeySeq(keys \ {k})

\* The keys of a dict in insertion order.  A dict whose keys were inserted in
\* another order than KeySeq's carries that order; a == b of two dicts does not
\* look at it.
KeyOrder(v) == IF "order" \in DOMAIN v THEN v.order ELSE KeySeq(DOMAIN v.map)

\* json.dumps(v) raises TypeError for a value that is no JSON value.
RECURSIVE json_serializable(_)
json_serializable(v) ==
    CASE v.tag \in {"None", "str", "int", "bool", "list"} -> TRUE
      [] v.tag = "dict" -> \A k \in DOMAIN v.map : json_serializable(v.map[k])
      [] OTHER -> FALSE

\* json.dumps(v) of None, str, int, bool, list of str and dict of these
RECURSIVE json_dumps(_)
json_dumps(v) ==
    CASE v.tag = "None" -> <<"null">>
      [] v.tag = "str" -> <<"\"">> \o Piece(v.s) \o <<"\"">>
      [] v.tag = "int" -> <<ToString(v.n)>>
      [] v.tag = "bool" -> IF v.b THEN <<"true">> ELSE <<"false">>
      [] v.tag = "list" ->
            <<"[">>
            \o JoinTexts(", ", [j \in 1..Len(v.items) |->
                                   <<"\"">> \o Piece(v.items[j]) \o <<"\"">>])
            \o <<"]">>
      [] v.tag = "dict" ->
            LET keys == KeyOrder(v)
            IN  <<"{">>
                \o JoinTexts(", ", [j \in 1..Len(keys) |->
                                       <<"\"", keys[j], "\"", ": ">>
                                       \o json_dumps(v.map[keys[j]])])
                \o <<"}">>

\* A faulty f-string interpolation: repr(v) of a str.
Format_repr(v) == IF v.tag = "str" THEN <<"'", v.s, "'">> ELSE <<"None">>

\* str(v), as an f-string interpolates it
RECURSIVE Format(_)
Format(v) ==
    CASE v.tag = "None" -> <<"None">>
      [] v.tag = "str" -> Piece(v.s)
      [] v.tag = "int" -> <<ToString(v.n)>>
      [] v.tag = "bool" -> IF v.b THEN <<"True">> ELSE <<"False">>
      [] v.tag = "list" ->
            <<"[">>
            \o JoinTexts(", ", [j \in 1..Len(v.items) |->
                                   <<"'">> \o Piece(v.items[j]) \o <<"'">>])
            \o <<"]">>
      [] v.tag = "dict" ->
            LET keys == KeyOrder(v)
            IN  <<"{">>
                \o JoinTexts(", ", [j \in 1..Len(keys) |->
                                       <<"'", keys[j], "'", ": ">> \o Format(v.map[keys[j]])])
                \o <<"}">>
      [] v.tag = "date" -> <<v.iso>>
      [] OTHER -> <<"<", v.tag, " object>">>

\* text.strip()
RECURSIVE LStrip(_)
LStrip(text) ==
    IF text # <<>> /\ IsSpace(Head(text)) THEN LStrip(Tail(text)) ELSE text
RECURSIVE RStrip(_)
RStrip(text) ==
    IF text # <<>> /\ IsSpace(text[Len(text)])
    THEN RStrip(SubSeq(text, 1, Len(text) - 1))
    ELSE text
Strip(text) == RStrip(LStrip(text))

\* text.replace(',', ' and'): the only commas are those of the ", " separators
ReplaceCommas(text) ==
    [j \in 1..Len(text) |-> IF text[j] = ", " THEN " and " ELSE text[j]]

\* A faulty info_parts: the lines are prepended, so they come out in reverse.
InfoParts_reversed(lines) ==
    LET parts == SelectSeq(lines, LAMBDA l : l # <<>>)
    IN  [j \in 1..Len(parts) |-> parts[Len(parts) + 1 - j]]

\* The lines a formatter appends for the fields that are truthy, in the order of
\* its if statements; `lines` holds, per field, its line or <<>>.
InfoParts(lines) == SelectSeq(lines, LAMBDA l : l # <<>>)

_format_company_info(company_details) ==
    IF ~Truthy(company_details) THEN <<>>
    ELSE
    LET c == company_details.f
        info_parts == InfoParts(<<
            IF Truthy(c.description)
            THEN <<"Company Description: ">> \o Format(c.description) ELSE <<>>,
            IF Truthy(c.specialties)
            THEN <<"Company Specialties: ">> \o Join(", ", c.specialties.items) ELSE <<>>,
            IF Truthy(c.location)
            THEN <<"Service Area: ">> \o Format(c.location) ELSE <<>>,
            IF Truthy(c.years_in_business)
            THEN <<"Experience: ">> \o Format(c.years_in_business)
                    \o <<" years in business">>
            ELSE <<>>,
            IF Truthy(c.mission_statement)
            THEN <<"Mission: ">> \o Format(c.mission_statement) ELSE <<>>,
            IF Truthy(c.values)
            THEN <<"Company Values: ">> \o Join(", ", c.values.items) ELSE <<>> >>)
    IN  JoinTexts("\n", info_parts)

_format_user_info(user_context) ==
    IF ~Truthy(user_context) THEN <<>>
    ELSE
    LET u == user_context.f
        info_parts == InfoParts(<<
            IF Truthy(u.name) THEN <<"Client Name: ">> \o Format(u.name) ELSE <<>>,
            IF Truthy(u.email) THEN <<"Client Email: ">> \o Format(u.email) ELSE <<>>,
            IF Truthy(u.phone) THEN <<"Client Phone: ">> \o Format(u.phone) ELSE <<>>,
            IF Truthy(u.preferences)
            THEN <<"Client Preferences: ">> \o json_dumps(u.preferences) ELSE <<>>,
            IF Truthy(u.previous_interactions)
            THEN <<"Previous Interactions: ">> \o json_dumps(u.previous_interactions)
            ELSE <<>>,
            IF Truthy(u.notes) THEN <<"Additional Notes: ">> \o Format(u.notes) ELSE <<>>,
            IF Truthy(u.goals)
            THEN <<"Client Goals: ">> \o Join(", ", u.goals.items) ELSE <<>>,
            IF Truthy(u.budget) THEN <<"Budget: ">> \o Format(u.budget) ELSE <<>>,
            IF Truthy(u.timeline) THEN <<"Timeline: ">> \o Format(u.timeline) ELSE <<>> >>)
    IN  JoinTexts("\n", info_parts)

\* _format_user_info raises what json.dumps raises.
_format_user_info_raises(user_context) ==
    /\ Truthy(user_context)
    /\ \E v \in {user_context.f.preferences, user_context.f.previous_interactions} :
           Truthy(v) /\ ~json_serializable(v)

knowledge_map ==
    ("real estate" :>
        "\n                Industry Knowledge:\n                - Knowledgeable about the local real estate market\n                - Understand property values, market trends, and neighborhood insights\n                - Familiar with buying/selling processes, financing options, and legal requirements\n                - Can provide market analysis and property recommendations\n                ")
    @@ ("insurance" :>
        "\n                Industry Knowledge:\n                - Knowledgeable about various insurance products and coverage options\n                - Understand risk assessment and policy customization\n                - Familiar with claims processes and customer protection\n                - Can provide quotes and explain coverage benefits\n                ")
    @@ ("financial services" :>
        "\n                Industry Knowledge:\n                - Knowledgeable about financial products and investment options\n                - Understand market conditions and financial planning\n                - Familiar with regulatory requirements and compliance\n                - Can provide financial advice and product recommendations\n                ")
    @@ ("healthcare" :>
        "\n                Industry Knowledge:\n                - Knowledgeable about healthcare services and treatment options\n                - Understand patient care and medical procedures\n                - Familiar with insurance coverage and billing processes\n                - Can provide information about appointments and services\n                ")
    @@ ("default" :>
        "\n                Industry Knowledge:\n                - Knowledgeable about your industry and market\n                - Professional and consultative in your approach\n                - Focused on understanding client needs and providing value\n                ")

\* A faulty lookup: the default block whatever the industry.
_get_industry_knowledge_default(industry) == PyStr(knowledge_map["default"])

\* A faulty lookup: the industry is looked up in lower case.
_get_industry_knowledge_caseless(industry) ==
    LET lower == IF industry = PyStr("Insurance") THEN "insurance"
                 ELSE IF industry.tag = "str" THEN industry.s ELSE "default"
    IN  PyStr(knowledge_map[IF lower \in DOMAIN knowledge_map THEN lower ELSE "default"])

\* knowledge_map.get(industry, knowledge_map["default"]); a list or a dict is no
\* dictionary key.
_get_industry_knowledge(industry) ==
    IF industry.tag \in {"list", "dict"} THEN Raised("TypeError")
    ELSE IF industry.tag = "str" /\ industry.s \in DOMAIN knowledge_map
    THEN PyStr(knowledge_map[industry.s])
    ELSE PyStr(knowledge_map["default"])

ToolCatalogue ==
    <<"Available Tools (use when appropriate):", Indent,
      "- end_call: **MOST IMPORTANT** - Call this when the user wants to end the call, says goodbye, or conversation is complete. ALWAYS call this to properly end calls.", Indent,
      "- transfer_call: Transfer to a human agent after confirming with user, then call end_call.", Indent,
      "- schedule_property_viewing: Schedule a property viewing when user requests it (needs: property_address, preferred_date, preferred_time).", Indent,
      "- schedule_consultation: Schedule a consultation meeting when user wants to meet (needs: consultation_type, date, time).", Indent,
      "- send_email: Send email to user when requested or for follow-up materials (needs: email_to, subject, body).", Indent,
      "- get_property_info: Get property details when user asks about a specific property (needs: property_address).", Indent,
      "- send_property_listings: Send property listings matching user's search criteria (needs: criteria).", Indent,
      "- detected_answering_machine: Call when you detect voicemail AFTER hearing the greeting.">>

PyText(pieces) == [tag |-> "text", pieces |-> pieces]

\* The sub-entities build_prompt reads attributes of.
HasEntities(config) ==
    /\ config.f.agent_personality.tag = "AgentPersonality"
    /\ config.f.company_details.tag = "CompanyDetails"
    /\ config.f.user_context.tag = "UserContext"
    /\ config.f.call_context.tag = "CallContext"

build_prompt(config) ==
    IF config.tag # "AgentConfig" \/ ~HasEntities(config) THEN Raised("AttributeError")
    ELSE
    LET personality_traits == config.f.agent_personality.f.traits
        personality_str ==
            IF Truthy(personality_traits)
            THEN Join(", ", personality_traits.items)
            ELSE <<"professional", ", ", "friendly", ", ", "and consultative">>
        communication_style == config.f.agent_personality.f.communication_style
        company_info == _format_company_info(config.f.company_details)
        user_info == _format_user_info(config.f.user_context)
        industry_knowledge == _get_industry_knowledge(config.f.industry)
        custom_instructions == PyOr(config.f.custom_instructions, PyStr(""))
    IN  IF _format_user_info_raises(config.f.user_context) THEN Raised("TypeError")
        ELSE IF IsRaised(industry_knowledge) THEN industry_knowledge
        ELSE PyText(Strip(Flatten(<<
            <<Indent, "You are ">>, Format(config.f.agent_name), <<", a ">>,
            personality_str, <<" ">>, Format(config.f.industry),
            <<" professional representing ">>, Format(config.f.company_details.f.name),
            <<". Your interface with the user is by Telephony (voice call).", Blank>>,
            company_info, <<Blank>>,
            user_info, <<Blank>>,
            <<"Call Purpose: ">>, Format(config.f.call_context.f.purpose), <<Blank>>,
            <<"Personality & Communication Style:", Indent, "- You are ">>,
            Format(communication_style), <<Indent, "- ">>,
            ReplaceCommas(personality_str), <<" in your approach", Indent,
              "- Focused on understanding the client's needs and providing value", Indent,
              "- Respectful of their time and preferences", Blank>>,
            Format(industry_knowledge), <<Blank>>,
            <<"Your goal is to engage with the client about their ">>,
            Format(config.f.industry),
            <<" needs and provide helpful information or schedule follow-up activities as appropriate.", Indent,
              "Always be polite and professional. Allow the user to end the conversation when they're ready.", Blank>>,
            ToolCatalogue, <<Blank>>,
            Format(custom_instructions), <<"\n        ">> >>)))

\* The legacy entry point: AgentConfig(agent_name=..., company_name=..., ...) with
\* the keywords of the legacy metadata, then build_prompt.
get_prompt(o, agent_name, user_preferences, user_needs, user_goals, user_concerns, user_feedback, user_history) ==
    LET config ==
            AgentConfig_init(o,
                [agent_name |-> agent_name,
                 company_name |-> PyStr("Our Company"),
                 company_details |-> PyDict(o \o <<"company_details">>, <<>>),
                 agent_personality |->
                     PyDict(o \o <<"agent_personality">>,
                         [traits |-> PyList(o \o <<"agent_personality", "traits">>,
                                            <<"warm", "empathetic", "human-like">>),
                          communication_style |->
                              PyStr("natural with genuine emotions")]),
                 call_purpose |-> PyStr("general assistance"),
                 user_details |->
                     PyDict(o \o <<"user_details">>,
                         [preferences |-> user_preferences,
                          needs |-> user_needs,
                          goals |-> user_goals,
                          concerns |-> user_concerns,
                          feedback |-> user_feedback,
                          history |-> user_history])])
    IN  IF IsRaised(config) THEN config ELSE build_prompt(config)

(***************************************************************************)
(* Object identity: the objects reachable from a value, an in-place change *)
(* of one object seen through every reference to it, and the value with    *)
(* identities erased (what a field-for-field comparison sees).             *)
(***************************************************************************)
RECURSIVE Objects(_)
Objects(v) ==
    CASE v.tag = "list" -> {v}
      [] v.tag = "dict" -> {v} \cup UNION {Objects(v.map[k]) : k \in DOMAIN v.map}
      [] v.tag \in ClassTags -> {v} \cup UNION {Objects(v.f[k]) : k \in DOMAIN v.f}
      [] OTHER -> {}

Ids(v) == {x.id : x \in Objects(v)}

RECURSIVE InPlace(_, _)
InPlace(v, new) ==
    CASE v.tag = "list" -> IF v.id = new.id /\ new.tag = "list" THEN new ELSE v
      [] v.tag = "dict" ->
            IF v.id = new.id /\ new.tag = "dict" THEN new
            ELSE [v EXCEPT !.map = [k \in DOMAIN v.map |-> InPlace(v.map[k], new)]]
      [] v.tag \in ClassTags ->
            IF v.id = new.id /\ new.tag = v.tag THEN new
            ELSE [v EXCEPT !.f = [k \in DOMAIN v.f |-> InPlace(v.f[k], new)]]
      [] OTHER -> v

RECURSIVE Erase(_)
Erase(v) ==
    CASE v.tag = "list" -> [v EXCEPT !.id = <<>>]
      [] v.tag = "dict" ->
            [tag |-> "dict", id |-> <<>>, map |-> [k \in DOMAIN v.map |-> Erase(v.map[k])]]
      [] v.tag \in ClassTags ->
            [tag |-> v.tag, id |-> <<>>, f |-> [k \in DOMAIN v.f |-> Erase(v.f[k])]]
      [] OTHER -> v

\* a == b, field for field
SameFields(a, b) == Erase(a) = Erase(b)

(***************************************************************************)
(* Sampled inputs.  Every field has a falsy and a truthy sample of its     *)
(* type besides None; a string sample names its field, so that a value     *)
(* carried into the wrong field is seen.                                   *)
(***************************************************************************)
ListFields ==
    {"specialties", "values", "traits", "previous_interactions", "pain_points", "goals",
     "success_metrics", "key_points", "compliance_requirements"}
DictFields == {"preferences", "demographics"}
IntFields == {"years_in_business"}
BoolFields == {"follow_up_required"}

\* The sample string number j of field k of the mapping or object with identity i.
Label(i, k, j) ==
    (IF Len(i) > 1 THEN i[Len(i)] \o "." ELSE "") \o k \o "#" \o ToString(j)

Items(i, k, n) == [j \in 1..n |-> Label(i, k, j)]

\* The two entries of a sample dict.
Entries(i, k) == [key |-> PyStr(Label(i, k, 1)), other |-> PyStr(Label(i, k, 2))]

Falsy(i, k) ==
    CASE k \in ListFields -> PyList(i \o <<k>>, <<>>)
      [] k \in DictFields -> PyDict(i \o <<k>>, <<>>)
      [] k \in IntFields -> PyInt(0)
      [] k \in BoolFields -> PyBool(FALSE)
      [] OTHER -> PyStr("")

TruthySamples(i, k) ==
    CASE k \in ListFields -> {PyList(i \o <<k>>, Items(i, k, n)) : n \in 1..MaxLen}
      [] k \in DictFields -> {PyDict(i \o <<k>>, Entries(i, k))}
      [] k \in IntFields -> {PyInt(15)}
      [] k \in BoolFields -> {PyBool(TRUE)}
      [] k = "industry" ->
            {PyStr(x) : x \in {"real estate", "insurance", "financial services",
                               "healthcare", "technology", "Insurance", "default"}}
      [] OTHER -> {PyStr(Label(i, k, 1))}

TruthySample(i, k) ==
    CASE k \in ListFields -> PyList(i \o <<k>>, Items(i, k, MaxLen))
      [] k \in DictFields -> PyDict(i \o <<k>>, Entries(i, k))
      [] k \in IntFields -> PyInt(15)
      [] k \in BoolFields -> PyBool(TRUE)
      [] k = "industry" -> PyStr("insurance")
      [] OTHER -> PyStr(Label(i, k, 1))

Samples(i, k) == {PyNone, Falsy(i, k)} \cup TruthySamples(i, k)

\* The nested mappings of the canonical shape and the parameters of their classes.
EntityKeys == {"company_details", "agent_personality", "call_context", "user_context"}
ScalarKeys == AgentConfigParams \ EntityKeys
ParamsOf(c) ==
    CASE c = "company_details" -> CompanyDetailsParams
      [] c = "agent_personality" -> AgentPersonalityParams
      [] c = "call_context" -> CallContextParams
      [] c = "user_context" -> UserContextParams

\* A key that is not in the mapping.
Absent == [tag |-> "absent"]

DictPut(m, k, v) ==
    IF v = Absent THEN [x \in DOMAIN m \ {k} |-> m[x]] ELSE DictSet(m, k, v)

\* The sample of field k a caller of the given kind passes: every field truthy,
\* every field falsy, or every field None; "dated" is "full" with a date among the
\* preferences.
Kinds == {"full", "falsy", "none"}
Sample(kind, i, k) ==
    CASE kind = "full" -> TruthySample(i, k)
      [] kind = "falsy" -> Falsy(i, k)
      [] kind = "none" -> PyNone
      [] kind = "dated" ->
            IF k = "preferences"
            THEN PyDict(i \o <<k>>, [viewing |-> PyDate("2024-01-01")])
            ELSE TruthySample(i, k)

\* The mapping with every key present, and the empty mapping.
EntityOf(i, c, kind) ==
    PyDict(i \o <<c>>, [k \in ParamsOf(c) |-> Sample(kind, i \o <<c>>, k)])
CanonicalOf(i, kind) ==
    PyDict(i, [k \in AgentConfigParams |->
                  IF k \in EntityKeys THEN EntityOf(i, k, kind) ELSE Sample(kind, i, k)])
FullCanonical(i) == CanonicalOf(i, "full")
EmptyCanonical(i) == PyDict(i, <<>>)

\* The mapping d with the key at `path` (a key, or the keys of nested mappings down
\* to a key; a nested mapping that d lacks is created) set to v or removed.
RECURSIVE EditPath(_, _, _)
EditPath(d, path, v) ==
    IF Len(path) = 1
    THEN [d EXCEPT !.map = DictPut(d.map, path[1], v)]
    ELSE LET c == path[1]
             sub == IF c \in DOMAIN d.map /\ IsDict(d.map[c])
                    THEN d.map[c]
                    ELSE PyDict(d.id \o <<c>>, <<>>)
         IN  [d EXCEPT !.map = DictSet(d.map, c, EditPath(sub, Tail(path), v))]

Edit(d, e) == EditPath(d, e.path, e.v)

\* Every way to change one key under the mapping at `at` (of the mapping with
\* identity i): a field is removed, None, or one of its samples; a nested mapping
\* is removed, None, or empty.
FieldEdits(i, at, keys) ==
    UNION {{[path |-> at \o <<k>>, v |-> v] : v \in {Absent} \cup Samples(i \o at, k)} :
              k \in keys}
MappingEdits(i, at, keys) ==
    UNION {{[path |-> at \o <<k>>, v |-> v] :
               v \in {Absent, PyNone, PyDict(i \o at \o <<k>>, <<>>)}} : k \in keys}

CanonicalEdits(i) ==
    FieldEdits(i, <<>>, ScalarKeys)
    \cup MappingEdits(i, <<>>, EntityKeys)
    \cup UNION {FieldEdits(i, <<c>>, ParamsOf(c)) : c \in EntityKeys}

\* The canonical mappings given to from_dict: the empty and the full mapping, and
\* each with one key changed.
CanonicalInputs(i) ==
    LET bases == {EmptyCanonical(i), FullCanonical(i)}
    IN  bases \cup {Edit(d, e) : d \in bases, e \in CanonicalEdits(i)}

\* The legacy metadata of the job system (src/examples/agent_config_examples.py,
\* example_5_legacy_compatibility), with the keys the adapter reads and, in the
\* nested mappings, keys it does not read.
LegacyAgentKeys == {"agent_name", "company_name", "industry", "custom_instructions"}
LegacyCompanyKeys ==
    {"name", "description", "specialties", "location", "years_in_business", "website"}
LegacyPersonalityKeys == {"traits", "communication_style", "tone"}
LegacyUserKeys ==
    {"name", "email", "phone", "preferences", "previous_interactions", "notes", "budget"}

LegacyOf(i, kind) ==
    LET ac == i \o <<"agent_config">>
    IN  PyDict(i,
          [phone_number |-> Sample(kind, i, "phone_number"),
           transfer_to |-> Sample(kind, i, "transfer_to"),
           call_purpose |-> Sample(kind, i, "call_purpose"),
           user_details |->
               PyDict(i \o <<"user_details">>,
                   [k \in LegacyUserKeys |-> Sample(kind, i \o <<"user_details">>, k)]),
           agent_config |->
               PyDict(ac,
                   [k \in LegacyAgentKeys \cup {"company_details", "agent_personality"} |->
                       CASE k = "company_details" ->
                               PyDict(ac \o <<k>>,
                                   [x \in LegacyCompanyKeys |-> Sample(kind, ac \o <<k>>, x)])
                         [] k = "agent_personality" ->
                               PyDict(ac \o <<k>>,
                                   [x \in LegacyPersonalityKeys |->
                                       Sample(kind, ac \o <<k>>, x)])
                         [] OTHER -> Sample(kind, ac, k)])])
FullLegacy(i) == LegacyOf(i, "full")

LegacyEdits(i) ==
    FieldEdits(i, <<>>, {"call_purpose"})
    \cup MappingEdits(i, <<>>, {"agent_config", "user_details"})
    \cup FieldEdits(i, <<"agent_config">>, LegacyAgentKeys)
    \cup MappingEdits(i, <<"agent_config">>, {"company_details", "agent_personality"})
    \cup FieldEdits(i, <<"agent_config", "company_details">>, LegacyCompanyKeys)
    \cup FieldEdits(i, <<"agent_config", "agent_personality">>, LegacyPersonalityKeys)
    \cup FieldEdits(i, <<"user_details">>, LegacyUserKeys)

\* The legacy metadata given to from_legacy_metadata: the empty and the full
\* metadata, each with one key changed, and with two keys changed.
LegacyInputs(i) ==
    LET bases == {PyDict(i, <<>>), FullLegacy(i)}
        once == {Edit(d, e) : d \in bases, e \in LegacyEdits(i)}
        twice == {Edit(d, e) : d \in once, e \in LegacyEdits(i)}
    IN  bases \cup once \cup twice

(***************************************************************************)
(* Operations of a caller on its variables.  `src` and `dst` are names of  *)
(* the caller's variables; an operation that raises leaves the exception   *)
(* in `dst`.                                                               *)
(***************************************************************************)
Has(name) == name \in DOMAIN store
IsConfig(name) == Has(name) /\ store[name].tag = "AgentConfig"
Bind(name, value) == [x \in DOMAIN store \cup {name} |-> IF x = name THEN value ELSE store[x]]

Did(op, src, dst) == [op |-> op, src |-> src, dst |-> dst]

\* No call on the builder yet: the number of with_X calls, the last argument given
\* to each setter, and the setters given an argument that differs from their last.
NoCalls == [n |-> 0, given |-> <<>>, replaced |-> {}]

\* dst = AgentConfig.from_dict(src)
FromDict(src, dst) ==
    /\ Has(src) /\ ~Has(dst)
    /\ store' = Bind(dst, AgentConfig_from_dict(<<dst>>, store[src]))
    /\ last' = Did("from_dict", src, dst)
    /\ UNCHANGED <<builder, calls, mutations, call, stream>>

\* dst = AgentConfig.from_legacy_metadata(src)
FromLegacy(src, dst) ==
    /\ Has(src) /\ ~Has(dst)
    /\ store' = Bind(dst, AgentConfig_from_legacy_metadata(<<dst>>, store[src]))
    /\ last' = Did("from_legacy_metadata", src, dst)
    /\ UNCHANGED <<builder, calls, mutations, call, stream>>

\* dumped = src.to_dict(); dst = AgentConfig.from_dict(dumped);
\* redumped = dst.to_dict()
RoundTrip(src, dst) ==
    /\ IsConfig(src) /\ ~Has(dst)
    /\ LET d == AgentConfig_to_dict(<<"dumped">>, store[src])
           c == IF IsRaised(d) THEN d ELSE AgentConfig_from_dict(<<dst>>, d)
           r == IF IsRaised(c) THEN c ELSE AgentConfig_to_dict(<<"redumped">>, c)
       IN  store' = [x \in DOMAIN store \cup {"dumped", dst, "redumped"} |->
                        CASE x = "dumped" -> d
                          [] x = dst -> c
                          [] x = "redumped" -> r
                          [] OTHER -> store[x]]
    /\ last' = Did("round_trip", src, dst)
    /\ UNCHANGED <<builder, calls, mutations, call, stream>>

\* dst = PromptBuilder.build_prompt(src)
BuildPrompt(src, dst) ==
    /\ IsConfig(src) /\ ~Has(dst)
    /\ store' = Bind(dst, build_prompt(store[src]))
    /\ last' = Did("build_prompt", src, dst)
    /\ UNCHANGED <<builder, calls, mutations, call, stream>>

(***************************************************************************)
(* The serialization pipeline on every sampled canonical mapping.          *)
(***************************************************************************)
InitDict ==
    /\ store \in {[data |-> d] : d \in CanonicalInputs(<<"data">>)}
    /\ builder = AgentConfigBuilder_init(<<"builder">>)
    /\ calls = NoCalls
    /\ mutations = 0
    /\ call = NoCall
    /\ stream = NoStream
    /\ last = Did("init", "", "data")

NextDict ==
    \/ FromDict("data", "config")
    \/ BuildPrompt("config", "prompt")
    \/ RoundTrip("config", "restored")

SpecDict == InitDict /\ [][NextDict]_vars

(***************************************************************************)
(* The legacy adapter on every sampled legacy metadata.                    *)
(***************************************************************************)
InitLegacy ==
    /\ store \in {[metadata |-> d] : d \in LegacyInputs(<<"metadata">>)}
    /\ builder = AgentConfigBuilder_init(<<"builder">>)
    /\ calls = NoCalls
    /\ mutations = 0
    /\ call = NoCall
    /\ stream = NoStream
    /\ last = Did("init", "", "metadata")

NextLegacy ==
    \/ FromLegacy("metadata", "config")
    \/ RoundTrip("config", "restored")

SpecLegacy == InitLegacy /\ [][NextLegacy]_vars

(***************************************************************************)
(* A caller that holds four entities, a canonical mapping and a legacy     *)
(* metadata, constructs configs on every path and calls the builder.       *)
(***************************************************************************)
RequiredOf(c) ==
    CASE c = "company_details" -> {"name"}
      [] c = "agent_personality" -> {"traits", "communication_style"}
      [] c = "call_context" -> {"purpose"}
      [] OTHER -> {}

\* The keyword arguments of a constructor call of class c: the required ones only,
\* or all of them with the samples of a kind.
KwOf(i, keys, kind) == [k \in keys |-> Sample(kind, i, k)]

Construct(c, o, kw) ==
    CASE c = "company_details" -> CompanyDetails_init(o, kw)
      [] c = "agent_personality" -> AgentPersonality_init(o, kw)
      [] c = "call_context" -> CallContext_init(o, kw)
      [] c = "user_context" -> UserContext_init(o, kw)

CallerKinds == Kinds \cup {"required"}

\* The caller's variables: entity c in variable c, constructed directly.
Caller(kind) ==
    [x \in EntityKeys \cup {"data", "metadata"} |->
        CASE x = "data" ->
                IF kind = "required" THEN EmptyCanonical(<<"data">>)
                ELSE CanonicalOf(<<"data">>, kind)
          [] x = "metadata" ->
                IF kind = "required" THEN PyDict(<<"metadata">>, <<>>)
                ELSE LegacyOf(<<"metadata">>, kind)
          [] OTHER ->
                IF kind = "required"
                THEN Construct(x, <<x>>, KwOf(<<x>>, RequiredOf(x), "full"))
                ELSE Construct(x, <<x>>, KwOf(<<x>>, ParamsOf(x), kind))]

\* dst = AgentConfig(agent_name=..., company_details=company_details, ...), with
\* the caller's entities and the optional arguments of a kind.
Direct(kind, dst) ==
    /\ ~Has(dst)
    /\ LET keys == IF kind = "required" THEN AgentConfigRequired ELSE AgentConfigParams
           kw == [k \in keys |->
                     IF k \in EntityKeys THEN store[k]
                     ELSE Sample(IF kind = "required" THEN "full" ELSE kind, <<dst>>, k)]
       IN  store' = Bind(dst, AgentConfig_init(<<dst>>, kw))
    /\ last' = Did("AgentConfig", kind, dst)
    /\ UNCHANGED <<builder, calls, mutations, call, stream>>

Setters ==
    {"with_agent_name", "with_company", "with_personality", "with_call_context",
     "with_user_context", "with_industry", "with_custom_instructions", "with_language",
     "with_timezone", "with_compliance_requirements"}

\* builder.<setter>(arg)
Call(setter, b, arg) ==
    CASE setter = "with_agent_name" -> with_agent_name(b, arg)
      [] setter = "with_company" -> with_company(b, arg, b.id \o <<"company_details">>)
      [] setter = "with_personality" ->
            with_personality(b, arg, b.id \o <<"agent_personality">>)
      [] setter = "with_call_context" -> with_call_context(b, arg, b.id \o <<"call_context">>)
      [] setter = "with_user_context" -> with_user_context(b, arg, b.id \o <<"user_context">>)
      [] setter = "with_industry" -> with_industry(b, arg)
      [] setter = "with_custom_instructions" -> with_custom_instructions(b, arg)
      [] setter = "with_language" -> with_language(b, arg)
      [] setter = "with_timezone" -> with_timezone(b, arg)
      [] setter = "with_compliance_requirements" -> with_compliance_requirements(b, arg)

\* The key of the canonical mapping a setter is documented to set.
KeyOf(setter) ==
    CASE setter = "with_agent_name" -> "agent_name"
      [] setter = "with_company" -> "company_details"
      [] setter = "with_personality" -> "agent_personality"
      [] setter = "with_call_context" -> "call_context"
      [] setter = "with_user_context" -> "user_context"
      [] setter = "with_industry" -> "industry"
      [] setter = "with_custom_instructions" -> "custom_instructions"
      [] setter = "with_language" -> "language"
      [] setter = "with_timezone" -> "timezone"
      [] setter = "with_compliance_requirements" -> "compliance_requirements"

\* An entity constructed in the argument list of the call
\* (src/examples/agent_config_examples.py, example_4_serialization).
Inline(setter) ==
    CASE setter = "with_company" -> CompanyTemplates_insurance_company(<<setter>>)
      [] setter = "with_personality" -> PersonalityTemplates_technical_expert(<<setter>>)
      [] setter = "with_call_context" ->
            CallContext_init(<<setter>>,
                [purpose |-> PyStr("Follow up on cloud migration proposal"),
                 priority |-> PyStr("high")])
      [] setter = "with_user_context" ->
            UserContext_init(<<setter>>,
                [name |-> PyStr("Jane Doe"),
                 email |-> PyStr("jane.doe@email.com"),
                 notes |-> PyStr("CTO is interested but needs ROI justification"),
                 goals |-> PyList(<<setter, "goals">>,
                                  <<"cloud migration", "cost reduction", "scalability">>)])

\* The caller's own entity of the setter's class.
Held(setter) == store[KeyOf(setter)]

\* The arguments a caller gives to a setter.
ArgsOf(setter) ==
    IF KeyOf(setter) \in EntityKeys
    THEN {Held(setter), Inline(setter)}
    ELSE {TruthySample(<<setter>>, KeyOf(setter)), Falsy(<<setter>>, KeyOf(setter))}

\* builder.<setter>(arg); a call that raises leaves the builder as it was.
With(setter, arg) ==
    /\ calls.n < MaxCalls
    /\ LET b == Call(setter, builder, arg)
       IN  /\ builder' = IF IsRaised(b) THEN builder ELSE b
           /\ last' = Did("with_X", setter, IF IsRaised(b) THEN "raise" ELSE "builder")
    /\ calls' = [n |-> calls.n + 1,
                 given |-> DictSet(calls.given, setter, arg),
                 replaced |->
                     IF setter \in DOMAIN calls.given /\ calls.given[setter] # arg
                     THEN calls.replaced \cup {setter}
                     ELSE calls.replaced]
    /\ UNCHANGED <<store, mutations, call, stream>>

\* dst = builder.build()
Build(dst) ==
    /\ ~Has(dst)
    /\ store' = Bind(dst, build(<<dst>>, builder))
    /\ last' = Did("build", "builder", dst)
    /\ UNCHANGED <<builder, calls, mutations, call, stream>>

Init ==
    /\ store \in {Caller(kind) : kind \in CallerKinds}
    /\ builder = AgentConfigBuilder_init(<<"builder">>)
    /\ calls = NoCalls
    /\ mutations = 0
    /\ call = NoCall
    /\ stream = NoStream
    /\ last = Did("init", "", "")

Next ==
    \/ \E kind \in CallerKinds : Direct(kind, "config")
    \/ FromDict("data", "config")
    \/ FromLegacy("metadata", "config")
    \/ \E setter \in Setters : \E arg \in ArgsOf(setter) : With(setter, arg)
    \/ Build("config")
    \/ RoundTrip("config", "restored")

Spec == Init /\ [][Next]_vars

(***************************************************************************)
(* A caller that constructs several configs from the same entities, the    *)
(* same mapping and the same builder, and then changes an object in place. *)
(***************************************************************************)
Configs == {x \in DOMAIN store : store[x].tag = "AgentConfig"}

\* The variable the next config is assigned to.
NextConfig == "c" \o ToString(Cardinality(Configs) + 1)

\* x.append("changed"), x["changed"] = "changed", or an assignment to an
\* attribute of the entity x.
Changed(x) ==
    CASE x.tag = "list" -> [x EXCEPT !.items = Append(@, "changed")]
      [] x.tag = "dict" -> [x EXCEPT !.map = DictSet(@, "changed", PyStr("changed"))]
      [] x.tag = "AgentConfig" -> [x EXCEPT !.f.agent_name = PyStr("changed")]
      [] x.tag = "AgentPersonality" -> [x EXCEPT !.f.tone = PyStr("changed")]
      [] x.tag = "CallContext" -> [x EXCEPT !.f.purpose = PyStr("changed")]
      [] OTHER -> [x EXCEPT !.f.name = PyStr("changed")]

\* An in-place change of the object x, reached from the caller's variable root;
\* every reference to x sees it.
Mutate(root, x) ==
    /\ mutations < MaxMutations
    /\ Has(root) /\ ~IsRaised(store[root])
    /\ x \in Objects(store[root])
    /\ LET new == Changed(x)
       IN  /\ store' = [n \in DOMAIN store |-> InPlace(store[n], new)]
           /\ builder' = InPlace(builder, new)
           /\ calls' = [calls EXCEPT
                           !.given = [s \in DOMAIN @ |-> InPlace(@[s], new)]]
    /\ mutations' = mutations + 1
    /\ UNCHANGED <<call, stream>>
    /\ last' = Did("mutate", root, root)

EntitySetters == {setter \in Setters : KeyOf(setter) \in EntityKeys}

InitShared ==
    /\ store \in {Caller(kind) : kind \in {"full", "required"}}
    /\ builder = AgentConfigBuilder_init(<<"builder">>)
    /\ calls = NoCalls
    /\ mutations = 0
    /\ call = NoCall
    /\ stream = NoStream
    /\ last = Did("init", "", "")

NextShared ==
    \/ Cardinality(Configs) < MaxConfigs /\ Direct("full", NextConfig)
    \/ Cardinality(Configs) < MaxConfigs /\ FromDict("data", NextConfig)
    \/ Cardinality(Configs) < MaxConfigs /\ FromLegacy("metadata", NextConfig)
    \/ Cardinality(Configs) < MaxConfigs /\ Build(NextConfig)
    \/ \E setter \in EntitySetters : With(setter, Held(setter))
    \/ \E root \in DOMAIN store : \E x \in Objects(store[root]) : Mutate(root, x)

SpecShared == InitShared /\ [][NextShared]_vars

(***************************************************************************)
(* A caller that constructs a config on any of the four paths, a second    *)
(* config from the same mapping written with its keys in another order,    *)
(* and renders them, in any order and any number of times.                 *)
(***************************************************************************)
Reverse(s) == [j \in 1..Len(s) |-> s[Len(s) + 1 - j]]

\* The mapping v with the keys of every dict inserted in the reverse order.
RECURSIVE Reordered(_)
Reordered(v) ==
    IF v.tag = "dict"
    THEN [tag |-> "dict", id |-> v.id,
          map |-> [k \in DOMAIN v.map |-> Reordered(v.map[k])],
          order |-> Reverse(KeyOrder(v))]
    ELSE v

\* Samples whose preferences hold a value of a type json does not serialize.
RenderKinds == CallerKinds \cup {"dated"}

RenderCaller(kind) ==
    LET caller == Caller(kind)
    IN  [x \in DOMAIN caller \cup {"shuffled"} |->
            IF x = "shuffled"
            THEN Reordered(IF kind = "required" THEN EmptyCanonical(<<"shuffled">>)
                           ELSE CanonicalOf(<<"shuffled">>, kind))
            ELSE caller[x]]

InitRender ==
    /\ store \in {RenderCaller(kind) : kind \in RenderKinds}
    /\ builder = AgentConfigBuilder_init(<<"builder">>)
    /\ calls = NoCalls
    /\ mutations = 0
    /\ call = NoCall
    /\ stream = NoStream
    /\ last = Did("init", "", "")

NextRender ==
    \/ \E kind \in RenderKinds : Direct(kind, "config")
    \/ FromDict("data", "config")
    \/ FromLegacy("metadata", "config")
    \/ \E setter \in EntitySetters : With(setter, Held(setter))
    \/ Build("config")
    \/ FromDict("shuffled", "twin")
    \/ BuildPrompt("config", "prompt")
    \/ BuildPrompt("config", "again")
    \/ BuildPrompt("twin", "other")

SpecRender == InitRender /\ [][NextRender]_vars

(***************************************************************************)
(* A caller that calls every setter of the builder once, in any order,     *)
(* then build(), and constructs a config directly from the same values.    *)
(***************************************************************************)
\* The caller's entities, and the kind of the scalars it passes.
BuilderCaller(entities, scalars) ==
    LET caller == Caller(entities)
    IN  [x \in DOMAIN caller \cup {"kind"} |->
            IF x = "kind" THEN PyStr(scalars) ELSE caller[x]]

\* The value the caller passes for a setter: its entity, or the scalar that the
\* direct construction passes for the same field.
Passed(setter) ==
    IF KeyOf(setter) \in EntityKeys THEN Held(setter)
    ELSE Sample(store.kind.s, <<"config">>, KeyOf(setter))

\* builder.<setter>(value), for a setter not called yet
WithEach(setter) ==
    /\ setter \notin DOMAIN calls.given
    /\ LET b == Call(setter, builder, Passed(setter))
       IN  /\ builder' = IF IsRaised(b) THEN builder ELSE b
           /\ last' = Did("with_X", setter, IF IsRaised(b) THEN "raise" ELSE "builder")
    /\ calls' = [n |-> calls.n + 1,
                 given |-> DictSet(calls.given, setter, Passed(setter)),
                 replaced |-> calls.replaced]
    /\ UNCHANGED <<store, mutations, call, stream>>

\* dst = builder.build(), at the end of the chain
BuildAll(dst) ==
    /\ DOMAIN calls.given = Setters
    /\ Build(dst)

InitBuilder ==
    /\ store \in {BuilderCaller(entities, scalars) :
                      entities \in CallerKinds, scalars \in Kinds}
    /\ builder = AgentConfigBuilder_init(<<"builder">>)
    /\ calls = NoCalls
    /\ mutations = 0
    /\ call = NoCall
    /\ stream = NoStream
    /\ last = Did("init", "", "")

NextBuilder ==
    \/ \E setter \in Setters : WithEach(setter)
    \/ BuildAll("built")
    \/ \E kind \in Kinds : store.kind = PyStr(kind) /\ Direct(kind, "config")

SpecBuilder == InitBuilder /\ [][NextBuilder]_vars

(***************************************************************************)
(* The legacy adapter on metadata that carries, besides the keys it reads, *)
(* every key of the canonical shape.                                       *)
(***************************************************************************)
\* The legacy metadata of a kind with every canonical key added: the scalars at the
\* top level and under agent_config, every field of each nested mapping, and a
\* call_context mapping.
RichLegacy(i, kind) ==
    LET base == LegacyOf(i, kind)
        ac == i \o <<"agent_config">>
        rich(at, c) == PyDict(at, [k \in ParamsOf(c) |-> Sample(kind, at, k)])
        agent_config ==
            [k \in DOMAIN base.map.agent_config.map \cup ScalarKeys
                    \cup {"call_context", "user_context"} |->
                CASE k \in EntityKeys -> rich(ac \o <<k>>, k)
                  [] k \in DOMAIN base.map.agent_config.map -> base.map.agent_config.map[k]
                  [] OTHER -> Sample(kind, ac, k)]
    IN  PyDict(i,
            [k \in DOMAIN base.map \cup ScalarKeys \cup EntityKeys |->
                CASE k = "agent_config" -> PyDict(ac, agent_config)
                  [] k = "user_details" -> rich(i \o <<k>>, "user_context")
                  [] k \in EntityKeys -> rich(i \o <<k>>, k)
                  [] k \in DOMAIN base.map -> base.map[k]
                  [] OTHER -> Sample(kind, i, k)])

RichInputs(i) ==
    {RichLegacy(i, kind) : kind \in Kinds}
    \cup {Edit(RichLegacy(i, kind), e) : kind \in {"full"}, e \in LegacyEdits(i)}

InitFrame ==
    /\ store \in {[metadata |-> d] : d \in RichInputs(<<"metadata">>)}
    /\ builder = AgentConfigBuilder_init(<<"builder">>)
    /\ calls = NoCalls
    /\ mutations = 0
    /\ call = NoCall
    /\ stream = NoStream
    /\ last = Did("init", "", "metadata")

NextFrame ==
    \/ FromLegacy("metadata", "config")
    \/ BuildPrompt("config", "prompt")

SpecFrame == InitFrame /\ [][NextFrame]_vars

(***************************************************************************)
(* A caller of the legacy entry point get_prompt.                          *)
(***************************************************************************)
GetPromptArgs ==
    {"agent_name", "user_preferences", "user_needs", "user_goals", "user_concerns",
     "user_feedback", "user_history"}

\* The field whose samples an argument of get_prompt is drawn from.
ArgField(x) ==
    CASE x = "agent_name" -> "agent_name"
      [] x = "user_preferences" -> "preferences"
      [] x = "user_needs" -> "pain_points"
      [] x = "user_goals" -> "goals"
      [] x = "user_concerns" -> "notes"
      [] x = "user_feedback" -> "notes"
      [] x = "user_history" -> "previous_interactions"

ArgSamples(x) == Samples(<<x>>, ArgField(x))

\* The caller's variables: the seven arguments.
PromptCaller(a, p, n, g, c) ==
    [x \in GetPromptArgs |->
        CASE x = "agent_name" -> a
          [] x = "user_preferences" -> p
          [] x = "user_needs" -> n
          [] x = "user_goals" -> g
          [] x = "user_concerns" -> c
          [] x = "user_feedback" -> c
          [] x = "user_history" -> PyNone]

\* dst = get_prompt(agent_name, user_preferences, ..., user_history)
GetPrompt(dst) ==
    /\ ~Has(dst)
    /\ store' = Bind(dst, get_prompt(<<dst>>, store.agent_name, store.user_preferences,
                                     store.user_needs, store.user_goals,
                                     store.user_concerns, store.user_feedback,
                                     store.user_history))
    /\ last' = Did("get_prompt", "agent_name", dst)
    /\ UNCHANGED <<builder, calls, mutations, call, stream>>

InitPrompt ==
    /\ store \in {PromptCaller(a, p, n, g, c) :
                      a \in ArgSamples("agent_name"), p \in ArgSamples("user_preferences"),
                      n \in ArgSamples("user_needs"), g \in ArgSamples("user_goals"),
                      c \in ArgSamples("user_concerns")}
    /\ builder = AgentConfigBuilder_init(<<"builder">>)
    /\ calls = NoCalls
    /\ mutations = 0
    /\ call = NoCall
    /\ stream = NoStream
    /\ last = Did("init", "", "")

NextPrompt == GetPrompt("prompt")

SpecPrompt == InitPrompt /\ [][NextPrompt]_vars

(***************************************************************************)
(* One outbound call job: the setup coroutine (entrypoint of src/agent.py, *)
(* or OutboundCaller.outbound_call), the session-start task, the agent's   *)
(* speech, and the function tools end_call and transfer_call of either     *)
(* PhonenixCaller (src/agent.py, or phonenix_agent/agent.py).  The state   *)
(* starts when the agent is constructed and the session-start task is      *)
(* created; `log` is the sequence of requests made and events awaited.     *)
(***************************************************************************)
Agents == {"src.agent", "phonenix_agent.agent"}
Setups == {"entrypoint", "outbound_call"}
TransferTargets == {PyNone, PyStr(""), PyStr("+15550100")}

\* self.participant = None, dial_info = {"transfer_to": ...}, session_started =
\* asyncio.create_task(session.start(...))
NewJob(agent, setup, transfer_to) ==
    [pc |-> "create_sip_participant",
     agent |-> agent,
     setup |-> setup,
     transfer_to |-> transfer_to,
     participant |-> PyNone,
     session |-> "starting",
     speech |-> "none",
     tool |-> "none",
     at |-> "idle",
     result |-> PyNone,
     tools |-> 0,
     mark |-> 0,
     log |-> <<>>]

Logged(c, events) == [c EXCEPT !.log = @ \o events]

\* participant_identity = phone_number (entrypoint), f"participant_{phone_number}"
\* (OutboundCaller.__init__)
Identity(setup) ==
    IF setup = "entrypoint" THEN PyStr("+15550123") ELSE PyStr("participant_+15550123")

Job(c) ==
    /\ call' = c
    /\ UNCHANGED <<store, builder, calls, mutations, last, stream>>

\* The session-start task completes, or fails.
SessionStarts ==
    /\ call.pc # "none" /\ call.session = "starting"
    /\ Job([call EXCEPT !.session = "started"])

SessionFails ==
    /\ call.pc # "none" /\ call.session = "starting"
    /\ Job([call EXCEPT !.session = "failed"])

\* await ctx.api.sip.create_sip_participant(...) returns: the call was answered.
CreateSipParticipantReturns ==
    /\ call.pc = "create_sip_participant"
    /\ Job(Logged([call EXCEPT !.pc = "session_started"], <<"create_sip_participant">>))

\* A setup without the except clause: the TwirpError propagates.
CreateSipParticipantFails_uncaught ==
    /\ call.pc = "create_sip_participant"
    /\ Job(Logged([call EXCEPT !.pc = "raised"], <<"create_sip_participant:TwirpError">>))

\* create_sip_participant raises TwirpError: except api.TwirpError -> ctx.shutdown()
CreateSipParticipantFails ==
    /\ call.pc = "create_sip_participant"
    /\ Job(Logged([call EXCEPT !.pc = "returned"], <<"create_sip_participant:TwirpError", "shutdown">>))

\* await session_started: resumes when the task is done, raises what it raised.
AwaitSessionStarted ==
    /\ call.pc = "session_started" /\ call.session # "starting"
    /\ Job(IF call.session = "started"
           THEN Logged([call EXCEPT !.pc = "wait_for_participant"], <<"session_started">>)
           ELSE [call EXCEPT !.pc = "raised"])

\* A setup that does not await the session-start task before the participant.
WaitForParticipantReturns_unawaited ==
    /\ call.pc \in {"session_started", "wait_for_participant"}
    /\ Job(Logged([call EXCEPT !.pc = "returned", !.participant = Identity(call.setup)],
                  <<"wait_for_participant", "set_participant">>))

\* participant = await ctx.wait_for_participant(...); set_participant(participant)
WaitForParticipantReturns ==
    /\ call.pc = "wait_for_participant"
    /\ Job(Logged([call EXCEPT !.pc = "returned", !.participant = Identity(call.setup)],
                  <<"wait_for_participant", "set_participant">>))

\* The agent starts to speak; the speech finishes playing out.
Speak ==
    /\ call.pc # "none" /\ call.session = "started" /\ call.speech = "none"
    /\ Job([call EXCEPT !.speech = "playing"])

PlayedOut ==
    /\ call.pc # "none" /\ call.speech = "playing"
    /\ Job([call EXCEPT !.speech = "none"])

\* The session invokes a function tool when none is running.
Invoked ==
    /\ call.pc # "none" /\ call.session = "started"
    /\ call.at \in {"idle", "returned", "raised"}
    /\ call.tools < MaxTools

Entered(tool) ==
    [call EXCEPT !.tool = tool, !.tools = @ + 1, !.mark = Len(call.log), !.result = PyNone]

\* self.hangup(): job_ctx.api.room.delete_room(...)
hangup(c) == Logged([c EXCEPT !.at = "returned"], <<"delete_room">>)

\* end_call up to its first await.  src/agent.py: participant_id = ... if
\* self.participant else "unknown"; await ctx.wait_for_playout().
\* phonenix_agent/agent.py: logger.info(f"... {self.participant.identity}");
\* if current_speech: await current_speech.wait_for_playout(); self.hangup()
end_call(c) ==
    IF c.agent = "src.agent" THEN [c EXCEPT !.at = "wait_for_playout"]
    ELSE IF c.participant = PyNone
    THEN [c EXCEPT !.at = "raised", !.result = Raised("AttributeError")]
    ELSE IF c.speech = "playing" THEN [c EXCEPT !.at = "wait_for_playout"]
    ELSE hangup(c)

EndCall ==
    /\ Invoked
    /\ Job(end_call(Entered("end_call")))

\* wait_for_playout returns when no speech is playing, and end_call goes on to
\* self.hangup().
WaitForPlayoutReturns ==
    /\ call.pc # "none" /\ call.at = "wait_for_playout" /\ call.speech # "playing"
    /\ Job(hangup(Logged(call, <<"wait_for_playout">>)))

\* transfer_call's await self.hangup(), after the error reply
Hangup ==
    /\ call.pc # "none" /\ call.at = "hangup"
    /\ Job(hangup(call))

\* A transfer_call that refuses only a transfer_to that is None.
transfer_call_unless_none(c) ==
    IF c.transfer_to = PyNone
    THEN [c EXCEPT !.at = "returned", !.result = PyStr("cannot transfer call")]
    ELSE Logged([c EXCEPT !.at = "transfer_sip_participant"], <<"generate_reply:transfer">>)

\* transfer_call up to the SIP request: return "cannot transfer call" when
\* transfer_to is falsy, else await generate_reply(... transferring ...)
transfer_call(c) ==
    IF ~Truthy(c.transfer_to)
    THEN [c EXCEPT !.at = "returned", !.result = PyStr("cannot transfer call")]
    ELSE Logged([c EXCEPT !.at = "transfer_sip_participant"], <<"generate_reply:transfer">>)

TransferCall ==
    /\ Invoked
    /\ Job(transfer_call(Entered("transfer_call")))

\* try: await job_ctx.api.sip.transfer_sip_participant(TransferSIPParticipantRequest(
\* ..., participant_identity=self.participant.identity, ...)); the request is built
\* inside the try, and succeeds or fails.
TransferSipParticipant(ok) ==
    /\ call.pc # "none" /\ call.at = "transfer_sip_participant"
    /\ Job(IF call.participant = PyNone
           THEN Logged([call EXCEPT !.at = "except"], <<"AttributeError">>)
           ELSE IF ok
           THEN Logged([call EXCEPT !.at = "returned"], <<"transfer_sip_participant">>)
           ELSE Logged([call EXCEPT !.at = "except"],
                       <<"transfer_sip_participant", "transfer_sip_participant:error">>))

\* except Exception: await generate_reply(... error ...), then self.hangup()
TransferFailed ==
    /\ call.pc # "none" /\ call.at = "except"
    /\ Job(Logged([call EXCEPT !.at = "hangup"], <<"generate_reply:error">>))

InitCall ==
    /\ store = <<>>
    /\ builder = AgentConfigBuilder_init(<<"builder">>)
    /\ calls = NoCalls
    /\ mutations = 0
    /\ call \in {NewJob(agent, setup, transfer_to) :
                     agent \in Agents, setup \in Setups, transfer_to \in TransferTargets}
    /\ stream = NoStream
    /\ last = Did("init", "", "")

NextCall ==
    \/ SessionStarts
    \/ SessionFails
    \/ CreateSipParticipantReturns
    \/ CreateSipParticipantFails
    \/ AwaitSessionStarted
    \/ WaitForParticipantReturns
    \/ Speak
    \/ PlayedOut
    \/ EndCall
    \/ WaitForPlayoutReturns
    \/ Hangup
    \/ TransferCall
    \/ \E ok \in BOOLEAN : TransferSipParticipant(ok)
    \/ TransferFailed

SpecCall == InitCall /\ [][NextCall]_vars

(***************************************************************************)
(* process_structured_output on the chunks of one LLM answer.  A text is a *)
(* sequence of tokens: the punctuation of JSON, a space, the two key names *)
(* of ResponseEmotion and letters; a chunk is any run of tokens.           *)
(* from_json(acc_text, allow_partial="trailing-strings") is pydantic_core: *)
(* it raises ValueError on an empty text and on a syntax error, drops an   *)
(* incomplete last member of an object, and keeps an unterminated last     *)
(* string value.                                                           *)
(***************************************************************************)
Quote == "\""
VoiceLetters == {"x", "y"}
ResponseLetters == {"a", "b"}

\* One token read by the parser: its mode, the members read, the key and the
\* string being read.
ParserStep(p, t) ==
    CASE p.mode = "start" ->
            IF t = " " THEN p
            ELSE IF t = "{" THEN [p EXCEPT !.mode = "member"]
            ELSE [p EXCEPT !.mode = "error"]
      [] p.mode \in {"member", "key"} ->
            IF t = " " THEN p
            ELSE IF t = Quote THEN [p EXCEPT !.mode = "in_key", !.key = <<>>]
            ELSE IF t = "}" /\ p.mode = "member" THEN [p EXCEPT !.mode = "done"]
            ELSE [p EXCEPT !.mode = "error"]
      [] p.mode = "in_key" ->
            IF t = Quote THEN [p EXCEPT !.mode = "colon"]
            ELSE [p EXCEPT !.key = Append(@, t)]
      [] p.mode = "colon" ->
            IF t = " " THEN p
            ELSE IF t = ":" THEN [p EXCEPT !.mode = "value"]
            ELSE [p EXCEPT !.mode = "error"]
      [] p.mode = "value" ->
            IF t = " " THEN p
            ELSE IF t = Quote THEN [p EXCEPT !.mode = "in_value", !.val = <<>>]
            ELSE [p EXCEPT !.mode = "error"]
      [] p.mode = "in_value" ->
            IF t = Quote
            THEN [p EXCEPT !.mode = "after_value", !.obj = DictSet(@, p.key, p.val)]
            ELSE [p EXCEPT !.val = Append(@, t)]
      [] p.mode = "after_value" ->
            IF t = " " THEN p
            ELSE IF t = "," THEN [p EXCEPT !.mode = "key"]
            ELSE IF t = "}" THEN [p EXCEPT !.mode = "done"]
            ELSE [p EXCEPT !.mode = "error"]
      [] p.mode = "done" ->
            IF t = " " THEN p ELSE [p EXCEPT !.mode = "error"]
      [] OTHER -> p

RECURSIVE Parser(_, _)
Parser(p, text) ==
    IF text = <<>> THEN p ELSE Parser(ParserStep(p, Head(text)), Tail(text))

\* from_json(text, allow_partial="trailing-strings") of an object of strings: the
\* dict parsed, or ValueError.
from_json(text) ==
    LET p == Parser([mode |-> "start", obj |-> <<>>, key |-> <<>>, val |-> <<>>], text)
    IN  IF p.mode \in {"start", "error"} THEN Raised("ValueError")
        ELSE IF p.mode = "in_value" THEN PyDict(<<>>, DictSet(p.obj, p.key, p.val))
        ELSE PyDict(<<>>, p.obj)

\* The generator before its first chunk: last_response = "", acc_text = "".
NewStream(text) ==
    [pc |-> "running",
     rest |-> text,
     acc_text |-> <<>>,
     last_response |-> <<>>,
     yielded |-> <<>>,
     parsed |-> <<>>,
     extends |-> TRUE]

IsPrefix(s, t) == Len(s) <= Len(t) /\ SubSeq(t, 1, Len(s)) = s

\* resp["response"][len(last_response):]
Delta(response, last_response) == SubSeq(response, Len(last_response) + 1, Len(response))

\* A generator that yields the response parsed so far, not what is new in it.
process_structured_output_whole(s, chunk) ==
    LET acc_text == s.acc_text \o chunk
        resp == from_json(acc_text)
        fed == [s EXCEPT !.acc_text = acc_text, !.rest = SubSeq(@, Len(chunk) + 1, Len(@))]
        response == DictGetD(resp.map, <<"response">>, <<>>)
    IN  IF IsRaised(resp) THEN fed
        ELSE IF response = <<>> THEN fed
        ELSE [fed EXCEPT !.yielded = Append(@, response), !.last_response = response]

\* One iteration of the loop of process_structured_output; `parsed` is the
\* "response" of the last text that parsed, and `extends` whether each one so
\* far began with the one before.
process_structured_output(s, chunk) ==
    LET acc_text == s.acc_text \o chunk
        resp == from_json(acc_text)
        fed == [s EXCEPT !.acc_text = acc_text, !.rest = SubSeq(@, Len(chunk) + 1, Len(@))]
    IN  IF IsRaised(resp) THEN fed
        ELSE
        LET response == DictGetD(resp.map, <<"response">>, <<>>)
            seen == [fed EXCEPT !.parsed = response,
                                !.extends = @ /\ IsPrefix(s.parsed, response)]
            new_delta == Delta(response, s.last_response)
        IN  IF response = <<>> THEN seen
            ELSE IF new_delta # <<>>
            THEN [seen EXCEPT !.yielded = Append(@, new_delta),
                              !.last_response = response]
            ELSE [seen EXCEPT !.last_response = response]

\* The answers of the LLM: both orders of the two members, every string of at most
\* MaxText letters, with or without a leading space, and answers with a member
\* twice, with no voice_instructions, or with text after the closing brace.
Strings(letters) ==
    UNION {[1..n -> letters] : n \in 0..MaxText}

Member(key, val) == <<Quote, key, Quote, ":", " ", Quote>> \o val \o <<Quote>>

RECURSIVE Members(_)
Members(members) ==
    IF members = <<>> THEN <<>>
    ELSE IF Len(members) = 1 THEN members[1]
    ELSE members[1] \o <<",", " ">> \o Members(Tail(members))

Object(members) == <<"{">> \o Members(members) \o <<"}">>

Documents ==
    LET voice(v) == Member("voice_instructions", v)
        response(r) == Member("response", r)
        plain == UNION {{Object(<<voice(v), response(r)>>),
                         Object(<<response(r), voice(v)>>),
                         <<" ">> \o Object(<<voice(v), response(r)>>)} :
                            <<v, r>> \in Strings(VoiceLetters) \X Strings(ResponseLetters)}
        odd == {Object(<<response(<<"a", "b">>), response(<<"a">>)>>),
                Object(<<response(<<"a">>), response(<<"a", "b">>)>>),
                Object(<<response(<<"a", "b">>)>>),
                Object(<<>>),
                Object(<<voice(<<"x">>), response(<<"a">>)>>) \o <<"a">>,
                <<"{", Quote, "response", Quote, ":", "a">>}
    IN  plain \cup odd

\* async for chunk in text: the next chunk is the next n tokens of the answer.
Feed(n) ==
    /\ stream.pc = "running"
    /\ n <= Len(stream.rest)
    /\ stream' = process_structured_output(stream, SubSeq(stream.rest, 1, n))
    /\ UNCHANGED <<store, builder, calls, mutations, last, call>>

InitStream ==
    /\ store = <<>>
    /\ builder = AgentConfigBuilder_init(<<"builder">>)
    /\ calls = NoCalls
    /\ mutations = 0
    /\ call = NoCall
    /\ stream \in {NewStream(text) : text \in Documents}
    /\ last = Did("init", "", "")

NextStream == \E n \in 0..MaxChunk : Feed(n)

SpecStream == InitStream /\ [][NextStream]_vars

(***************************************************************************)
(* The documented defaults (spec.md, sections 3 and 8).                    *)
(***************************************************************************)
EmptyList == PyList(<<>>, <<>>)
EmptyDict == PyDict(<<>>, <<>>)

\* The documented default of field k of the nested mapping c ("" for a top-level key).
DefaultOf(c, k) ==
    CASE k \in ListFields -> EmptyList
      [] k \in DictFields -> EmptyDict
      [] k \in BoolFields -> PyBool(FALSE)
      [] c = "" /\ k = "agent_name" -> PyStr("Professional Assistant")
      [] c = "" /\ k = "industry" -> PyStr("real estate")
      [] c = "" /\ k = "language" -> PyStr("en")
      [] c = "company_details" /\ k = "name" -> PyStr("")
      [] c = "call_context" /\ k = "purpose" -> PyStr("")
      [] c = "call_context" /\ k = "priority" -> PyStr("normal")
      [] c = "agent_personality" /\ k = "communication_style" -> PyStr("professional")
      [] c = "agent_personality" /\ k = "tone" -> PyStr("professional")
      [] c = "agent_personality" /\ k = "expertise_level" -> PyStr("expert")
      [] c = "agent_personality" /\ k = "response_speed" -> PyStr("conversational")
      [] OTHER -> PyNone

ClassOf(c) ==
    CASE c = "company_details" -> "CompanyDetails"
      [] c = "agent_personality" -> "AgentPersonality"
      [] c = "call_context" -> "CallContext"
      [] c = "user_context" -> "UserContext"

\* The value at a path of keys of nested mappings, Absent when there is none.
RECURSIVE ValueAt(_, _)
ValueAt(d, path) ==
    IF path = <<>> THEN d
    ELSE IF IsDict(d) /\ Head(path) \in DOMAIN d.map
    THEN ValueAt(d.map[Head(path)], Tail(path))
    ELSE Absent

\* Every nested mapping of the canonical mapping d that is present is a mapping.
WellShaped(d) == \A c \in EntityKeys : ValueAt(d, <<c>>) = Absent \/ IsDict(ValueAt(d, <<c>>))

\* The field k of entity c of a config, "" for the config's own field.
FieldOf(config, c, k) == IF c = "" THEN config.f[k] ELSE config.f[c].f[k]
PathOf(c, k) == IF c = "" THEN <<k>> ELSE <<c, k>>
FieldSlots ==
    {<<"", k>> : k \in ScalarKeys}
    \cup UNION {{<<c, k>> : k \in ParamsOf(c)} : c \in EntityKeys}

\* A config whose four sub-entities are objects of their classes.
Complete(config) ==
    /\ config.tag = "AgentConfig"
    /\ \A c \in EntityKeys : config.f[c].tag = ClassOf(c)

(***************************************************************************)
(* A caller that leaves one keyword out of a constructor call, and one key *)
(* out of the mapping given to a from_dict or to the legacy adapter.       *)
(***************************************************************************)
Omit(kw, k) == [x \in DOMAIN kw \ {k} |-> kw[x]]

Entity_from_dict(c, o, data) ==
    CASE c = "company_details" -> CompanyDetails_from_dict(o, data)
      [] c = "agent_personality" -> AgentPersonality_from_dict(o, data)
      [] c = "call_context" -> CallContext_from_dict(o, data)
      [] c = "user_context" -> UserContext_from_dict(o, data)

\* dst = <class of c>(every keyword but k)
NewEntity(c, k, dst) ==
    /\ ~Has(dst)
    /\ store' = Bind(dst, Construct(c, <<dst>>, Omit(KwOf(<<dst>>, ParamsOf(c), "full"), k)))
    /\ last' = Did("construct", <<c, k>>, dst)
    /\ UNCHANGED <<builder, calls, mutations, call, stream>>

\* dst = AgentConfig(every keyword but k), with the caller's entities
NewConfig(k, dst) ==
    /\ ~Has(dst)
    /\ LET kw == [x \in AgentConfigParams |->
                     IF x \in EntityKeys THEN store[x] ELSE Sample("full", <<dst>>, x)]
       IN  store' = Bind(dst, AgentConfig_init(<<dst>>, Omit(kw, k)))
    /\ last' = Did("construct", <<k>>, dst)
    /\ UNCHANGED <<builder, calls, mutations, call, stream>>

\* dst = <class of c>.from_dict(data[c] without key k)
EntityFromDict(c, k, dst) ==
    /\ ~Has(dst)
    /\ LET mapping == ValueAt(EditPath(store.data, <<c, k>>, Absent), <<c>>)
       IN  store' = Bind(dst, Entity_from_dict(c, <<dst>>, mapping))
    /\ last' = Did("entity_from_dict", <<c, k>>, dst)
    /\ UNCHANGED <<builder, calls, mutations, call, stream>>

\* dst = AgentConfig.from_dict(data without the key at a path)
FromDictLacking(c, k, dst) ==
    /\ ~Has(dst)
    /\ store' = Bind(dst, AgentConfig_from_dict(<<dst>>,
                              EditPath(store.data, PathOf(c, k), Absent)))
    /\ last' = Did("from_dict", PathOf(c, k), dst)
    /\ UNCHANGED <<builder, calls, mutations, call, stream>>

\* The keys of the legacy metadata that feed a required constructor parameter.
LegacyRequired ==
    {<<"agent_config">>, <<"agent_config", "agent_name">>,
     <<"agent_config", "company_name">>, <<"agent_config", "company_details">>,
     <<"agent_config", "agent_personality">>,
     <<"agent_config", "agent_personality", "traits">>,
     <<"agent_config", "agent_personality", "communication_style">>,
     <<"call_purpose">>, <<"user_details">>}

\* dst = AgentConfig.from_legacy_metadata(metadata without the key at a path)
FromLegacyLacking(path, dst) ==
    /\ ~Has(dst)
    /\ store' = Bind(dst, AgentConfig_from_legacy_metadata(<<dst>>,
                              EditPath(store.metadata, path, Absent)))
    /\ last' = Did("from_legacy_metadata", path, dst)
    /\ UNCHANGED <<builder, calls, mutations, call, stream>>

InitStrict ==
    /\ store \in {Caller(kind) : kind \in Kinds}
    /\ builder = AgentConfigBuilder_init(<<"builder">>)
    /\ calls = NoCalls
    /\ mutations = 0
    /\ call = NoCall
    /\ stream = NoStream
    /\ last = Did("init", <<>>, "")

NextStrict ==
    \/ \E c \in EntityKeys : \E k \in ParamsOf(c) : NewEntity(c, k, "result")
    \/ \E k \in AgentConfigParams : NewConfig(k, "result")
    \/ \E c \in EntityKeys : \E k \in ParamsOf(c) : EntityFromDict(c, k, "result")
    \/ \E slot \in FieldSlots \cup {<<"", c>> : c \in EntityKeys} :
           FromDictLacking(slot[1], slot[2], "result")
    \/ \E path \in LegacyRequired : FromLegacyLacking(path, "result")

SpecStrict == InitStrict /\ [][NextStrict]_vars

(***************************************************************************)
(* Claims on AgentConfig.from_dict (SpecDict).                             *)
(***************************************************************************)
\* C2. Default-fill law: from_dict({}) does not raise and yields agent_name
\* "Professional Assistant", industry "real estate", language "en", priority
\* "normal", follow_up_required false, tone/expertise_level/response_speed
\* "professional"/"expert"/"conversational", every collection empty and every other
\* optional field absent (None).
C2_DefaultFill ==
    (Has("config") /\ store.data.map = <<>>) =>
        /\ Complete(store.config)
        /\ \A slot \in FieldSlots \ {<<"company_details", "name">>,
                                     <<"call_context", "purpose">>,
                                     <<"agent_personality", "communication_style">>} :
               Erase(FieldOf(store.config, slot[1], slot[2])) = DefaultOf(slot[1], slot[2])

C2_Witness == Has("config") /\ store.data.map = <<>> /\ IsConfig("config")

\* C5. In every from_dict, for every field whose documented default is not None, a
\* key present with an explicit None value gives the same result as the key missing.
NonNoneDefaultPaths ==
    {<<c>> : c \in EntityKeys}
    \cup {PathOf(slot[1], slot[2]) : slot \in {x \in FieldSlots : DefaultOf(x[1], x[2]) # PyNone}}

C5_NoneAsMissing ==
    Has("config") =>
        \A path \in NonNoneDefaultPaths :
            ValueAt(store.data, path) = PyNone =>
                SameFields(store.config,
                           AgentConfig_from_dict(<<"config">>,
                                                 EditPath(store.data, path, Absent)))

\* C8 (as claimed). from_dict on a partial canonical mapping never raises, every key
\* that is present is carried into the config unchanged and every absent key
\* resolves to its documented default.  Stated on the mappings that hold no None.
NoneFree(d) ==
    \A slot \in FieldSlots : ValueAt(d, PathOf(slot[1], slot[2])) # PyNone

Verbatim(d, c, k) ==
    LET v == ValueAt(d, PathOf(c, k))
    IN  IF v = Absent THEN DefaultOf(c, k) ELSE Erase(v)

C8_CarriedUnchanged ==
    (Has("config") /\ WellShaped(store.data) /\ NoneFree(store.data)) =>
        /\ Complete(store.config)
        /\ \A slot \in FieldSlots :
               Erase(FieldOf(store.config, slot[1], slot[2]))
                   = Verbatim(store.data, slot[1], slot[2])

\* C8 (amended). from_dict on a partial canonical mapping never raises; every absent
\* key resolves to its documented default; every present key is carried into the
\* config unchanged, except that a falsy value ("", an empty collection, False) of
\* a field the constructors normalise with `or` (tone, expertise_level,
\* response_speed, priority, follow_up_required and every collection but traits)
\* resolves to that field's default.  Stated, as the claim, on the mappings that
\* hold no None.
OrNormalised ==
    ((ListFields \cup DictFields \cup BoolFields) \ {"traits"})
    \cup {"tone", "expertise_level", "response_speed", "priority"}

Normalised(d, c, k) ==
    LET v == ValueAt(d, PathOf(c, k))
    IN  IF v = Absent THEN DefaultOf(c, k)
        ELSE IF k \in OrNormalised /\ ~Truthy(v) THEN DefaultOf(c, k)
        ELSE Erase(v)

C8_PartialMapping ==
    (Has("config") /\ WellShaped(store.data) /\ NoneFree(store.data)) =>
        /\ Complete(store.config)
        /\ \A slot \in FieldSlots :
               Erase(FieldOf(store.config, slot[1], slot[2]))
                   = Normalised(store.data, slot[1], slot[2])

\* a partial mapping with a present truthy key, a present falsy key of a normalised
\* field and an absent key has been loaded
C8_Witness ==
    /\ IsConfig("config")
    /\ WellShaped(store.data) /\ NoneFree(store.data)
    /\ ValueAt(store.data, <<"agent_personality", "tone">>) = PyStr("")
    /\ ValueAt(store.data, <<"agent_name">>) = Absent
    /\ store.config.f.agent_personality.f.tone = PyStr("professional")

(***************************************************************************)
(* Claims on AgentConfig.from_legacy_metadata (SpecLegacy).                *)
(***************************************************************************)
\* C3. Legacy-adapter fallback: from_legacy_metadata({}) does not raise and yields
\* agent_name "Professional Assistant", company_details.name "Our Company" and
\* call_context.purpose "general inquiry".
C3_LegacyFallback ==
    (Has("config") /\ store.metadata.map = <<>>) =>
        /\ Complete(store.config)
        /\ store.config.f.agent_name = PyStr("Professional Assistant")
        /\ store.config.f.company_details.f.name = PyStr("Our Company")
        /\ store.config.f.call_context.f.purpose = PyStr("general inquiry")

C3_Witness == Has("config") /\ store.metadata.map = <<>> /\ IsConfig("config")

\* C4. from_legacy_metadata never raises because of a missing or null nested
\* mapping: when agent_config, user_details, agent_config.company_details or
\* agent_config.agent_personality is absent or None, the adapter treats it as the
\* empty mapping and returns a complete AgentConfig.
LegacyMappingPaths ==
    {<<"agent_config">>, <<"user_details">>, <<"agent_config", "company_details">>,
     <<"agent_config", "agent_personality">>}

\* The metadata with every null nested mapping replaced by an empty one.
RECURSIVE NullsAsEmpty(_, _)
NullsAsEmpty(d, paths) ==
    IF paths = <<>> THEN d
    ELSE NullsAsEmpty(
            IF ValueAt(d, Head(paths)) = PyNone
            THEN EditPath(d, Head(paths), PyDict(d.id \o Head(paths), <<>>))
            ELSE d,
            Tail(paths))

C4_NestedNeverFatal ==
    Has("config") =>
        /\ Complete(store.config)
        /\ SameFields(store.config,
              AgentConfig_from_legacy_metadata(<<"config">>,
                  NullsAsEmpty(store.metadata,
                      <<<<"agent_config">>, <<"user_details">>,
                        <<"agent_config", "company_details">>,
                        <<"agent_config", "agent_personality">> >>)))

\* C7. from_legacy_metadata folds agent_config.company_name into
\* company_details.name, call_purpose into call_context.purpose and
\* agent_config.agent_name into agent_name, each verbatim when the key is present,
\* and each falls back to its literal ("Our Company", "general inquiry",
\* "Professional Assistant") exactly when the key is absent.  Stated on the
\* metadata whose nested mappings are mappings where present.
WellFormedLegacy(d) ==
    \A path \in LegacyMappingPaths : ValueAt(d, path) = Absent \/ IsDict(ValueAt(d, path))

Folded(d, path, literal) ==
    IF ValueAt(d, path) = Absent THEN PyStr(literal) ELSE ValueAt(d, path)

C7_LegacyFolding ==
    (Has("config") /\ WellFormedLegacy(store.metadata)) =>
        /\ Complete(store.config)
        /\ store.config.f.company_details.f.name
               = Folded(store.metadata, <<"agent_config", "company_name">>, "Our Company")
        /\ store.config.f.call_context.f.purpose
               = Folded(store.metadata, <<"call_purpose">>, "general inquiry")
        /\ store.config.f.agent_name
               = Folded(store.metadata, <<"agent_config", "agent_name">>,
                        "Professional Assistant")

\* metadata with company_name present and empty, call_purpose present and
\* agent_name absent has been adapted
C7_Witness ==
    /\ IsConfig("config")
    /\ ValueAt(store.metadata, <<"agent_config", "company_name">>) = PyStr("")
    /\ ValueAt(store.metadata, <<"call_purpose">>) \notin {Absent, PyNone, PyStr("")}
    /\ ValueAt(store.metadata, <<"agent_config", "agent_name">>) = Absent
    /\ store.config.f.company_details.f.name = PyStr("")

(***************************************************************************)
(* Claims on PromptBuilder.build_prompt (SpecDict).                        *)
(***************************************************************************)
\* sub occurs in text at position p
OccursAt(text, sub, p) ==
    /\ p >= 1 /\ p + Len(sub) - 1 <= Len(text)
    /\ SubSeq(text, p, p + Len(sub) - 1) = sub

\* The first position from `from` on at which sub occurs in text, 0 when none.
Find(text, sub, from) ==
    LET at == {p \in from..Len(text) : OccursAt(text, sub, p)}
    IN  IF at = {} THEN 0 ELSE CHOOSE p \in at : \A q \in at : p <= q

\* text contains the texts of subs as substrings, one after the other in this order.
RECURSIVE InOrder(_, _, _)
InOrder(text, subs, from) ==
    IF subs = <<>> THEN TRUE
    ELSE LET p == Find(text, Head(subs), from)
         IN  p # 0 /\ InOrder(text, Tail(subs), p + Len(Head(subs)))

IsText(v) == v.tag = "str" /\ v.s # ""

\* A config with an agent name, company specialties, a call purpose, a user name and
\* an industry of the knowledge table.
EndToEnd(config) ==
    /\ Complete(config)
    /\ IsText(config.f.agent_name)
    /\ config.f.company_details.f.specialties.tag = "list"
    /\ Truthy(config.f.company_details.f.specialties)
    /\ IsText(config.f.call_context.f.purpose)
    /\ IsText(config.f.user_context.f.name)
    /\ config.f.industry.tag = "str"
    /\ config.f.industry.s \in DOMAIN knowledge_map \ {"default"}

HeaderPiece(config) == <<"You are ", config.f.agent_name.s>>
SpecialtiesPiece(config) ==
    <<"Company Specialties: ">> \o Join(", ", config.f.company_details.f.specialties.items)
PurposePiece(config) == <<"Call Purpose: ", config.f.call_context.f.purpose.s>>
ClientPiece(config) == <<"Client Name: ", config.f.user_context.f.name.s>>
KnowledgePiece(config) == <<knowledge_map[config.f.industry.s]>>

\* C6 (as claimed). The prompt of such a config contains "You are <agent_name>", the
\* "Company Specialties: ..." line, the "Call Purpose: ..." line, the
\* "Client Name: ..." line and the industry knowledge paragraph in that order.
C6_PurposeBeforeClient ==
    (Has("prompt") /\ EndToEnd(store.config)) =>
        /\ store.prompt.tag = "text"
        /\ InOrder(store.prompt.pieces,
                   <<HeaderPiece(store.config), SpecialtiesPiece(store.config),
                     PurposePiece(store.config), ClientPiece(store.config),
                     KnowledgePiece(store.config)>>, 1)

\* C6 (amended). The prompt of such a config contains each of the five pieces as a
\* substring, in the order header, company block, user block ("Client Name: ..."),
\* call purpose, industry knowledge.
C6_PromptOrder ==
    (Has("prompt") /\ EndToEnd(store.config)) =>
        /\ store.prompt.tag = "text"
        /\ InOrder(store.prompt.pieces,
                   <<HeaderPiece(store.config), SpecialtiesPiece(store.config),
                     ClientPiece(store.config), PurposePiece(store.config),
                     KnowledgePiece(store.config)>>, 1)

C6_Witness ==
    /\ Has("prompt") /\ EndToEnd(store.config)
    /\ store.prompt.tag = "text"
    /\ Len(store.config.f.company_details.f.specialties.items) = MaxLen

(***************************************************************************)
(* Claims on a config constructed on any path and on the builder (Spec).   *)
(***************************************************************************)
\* C1. Round-trip law: for a config c obtained by direct construction, from_dict,
\* from_legacy_metadata or build(), from_dict(c.to_dict()) is a config equal to c
\* field for field, and the mapping d that to_dict() produced satisfies
\* from_dict(d).to_dict() == d.
C1_RoundTrip ==
    last.op = "round_trip" =>
        /\ IsConfig("restored")
        /\ SameFields(store.restored, store[last.src])
        /\ SameFields(store.redumped, store.dumped)

\* A config built by the builder from a template, and restored.
C1_Witness ==
    /\ last.op = "round_trip"
    /\ "with_company" \in DOMAIN calls.given
    /\ IsConfig("restored")
    /\ store.restored.f.company_details.f.name = PyStr("SecureLife Insurance")

\* The fields of the config that last-write-wins determines: the last argument of
\* each setter that was called (an entity's fields for an entity setter, a falsy
\* list of compliance requirements as the empty list), the default of the others.
Given(setter) == setter \in DOMAIN calls.given

Determined(setter) ==
    LET k == KeyOf(setter)
    IN  IF k \in EntityKeys
        THEN PyObject(ClassOf(k), <<>>,
                 IF Given(setter) THEN Erase(calls.given[setter]).f
                 ELSE [x \in ParamsOf(k) |-> DefaultOf(k, x)])
        ELSE IF ~Given(setter) THEN DefaultOf("", k)
        ELSE IF k = "compliance_requirements" /\ ~Truthy(calls.given[setter])
        THEN EmptyList
        ELSE Erase(calls.given[setter])

\* C10. The builder is last-write-wins: no with_X call raises, and build() returns
\* the config whose fields are the last argument given to each setter (the default
\* where a setter was not called), whatever was given to a setter before.
C10_LastWriteWins ==
    /\ last.op = "with_X" => last.dst = "builder"
    /\ last.op = "build" =>
          /\ IsConfig(last.dst)
          /\ \A setter \in Setters :
                Erase(store[last.dst].f[KeyOf(setter)]) = Determined(setter)

\* build() after a setter was given a second argument that differs from its first.
C10_Witness ==
    /\ last.op = "build"
    /\ calls.replaced # {}
    /\ IsConfig("config")

(***************************************************************************)
(* Claim on configs that were constructed from the same objects            *)
(* (SpecShared).                                                           *)
(***************************************************************************)
\* The entities the builder was given.
PassedToBuilder == {KeyOf(setter) : setter \in DOMAIN calls.given}

\* C9. Exclusive ownership: an in-place change to a collection or entity reachable
\* from a config, from an input mapping or from an entity that was passed to the
\* builder leaves the fields of every other config as they were.
C9_ExclusiveOwnership ==
    [][(/\ last'.op = "mutate"
        /\ last'.src \in Configs \cup {"data", "metadata"} \cup PassedToBuilder)
       => \A c \in Configs \ {last'.src} : SameFields(store'[c], store[c])]_vars

(***************************************************************************)
(* Claim on the steps of the builder (Spec).                               *)
(***************************************************************************)
\* C11. Builder frame: a setter returns the builder it was called on and changes
\* only its own key of the accumulated mapping (an entity setter stores the mapping
\* of the entity's fields, a scalar setter the value itself), every other key stays
\* as it was; build() returns from_dict of the accumulated mapping, and a builder
\* with no setter called builds the config from_dict({}) builds.
C11_BuilderFrame ==
    [][/\ last'.op = "with_X" =>
            LET k == KeyOf(last'.src)
                arg == calls'.given[last'.src]
            IN  /\ last'.dst = "builder"
                /\ builder'.id = builder.id
                /\ DOMAIN builder'.map = DOMAIN builder.map \cup {k}
                /\ \A x \in DOMAIN builder.map \ {k} : builder'.map[x] = builder.map[x]
                /\ IF k \in EntityKeys
                   THEN /\ IsDict(builder'.map[k])
                        /\ Erase(builder'.map[k]).map = Erase(arg).f
                   ELSE builder'.map[k] = arg
       /\ last'.op = "build" =>
            /\ SameFields(store'[last'.dst], AgentConfig_from_dict(<<>>, builder))
            /\ builder.map = <<>> =>
                  SameFields(store'[last'.dst],
                             AgentConfig_from_dict(<<>>, PyDict(<<>>, <<>>)))]_vars

\* A setter was called on a builder that already held another key.
C11_Witness ==
    /\ last.op = "with_X"
    /\ calls.n = 2
    /\ Cardinality(DOMAIN builder.map) = 2
    /\ KeyOf(last.src) \in EntityKeys

(***************************************************************************)
(* Claims on the blocks of the prompt (SpecDict).  A line of the prompt is *)
(* a maximal run of pieces between line breaks; sampled strings hold no    *)
(* line break.                                                             *)
(***************************************************************************)
IsBreak(piece) == piece \in {Indent, Blank, "\n", "\n        "}

\* The line of a text that begins at piece j.
LineAt(text, j) ==
    LET end == CHOOSE m \in j..Len(text) :
                   /\ \A x \in j..m : ~IsBreak(text[x])
                   /\ m = Len(text) \/ IsBreak(text[m + 1])
    IN  SubSeq(text, j, end)

RECURSIVE LinesAt(_, _)
LinesAt(text, starts) ==
    IF starts = {} THEN <<>>
    ELSE LET j == CHOOSE x \in starts : \A y \in starts : x <= y
         IN  <<LineAt(text, j)>> \o LinesAt(text, starts \ {j})

\* The lines of a text that begin with one of the labels, in their order.
Labelled(text, labels) ==
    LinesAt(text, {j \in 1..Len(text) :
                      /\ \E x \in 1..Len(labels) : text[j] = labels[x]
                      /\ j = 1 \/ IsBreak(text[j - 1])})

\* A field that is present and not empty: not None, not "", not an empty list or
\* dict; an int is present whatever its value.
Present(v) ==
    CASE v.tag = "None" -> FALSE
      [] v.tag = "str" -> v.s # ""
      [] v.tag = "list" -> v.items # <<>>
      [] v.tag = "dict" -> v.map # <<>>
      [] OTHER -> TRUE

\* items joined with ", "
RECURSIVE Commas(_)
Commas(items) ==
    IF Len(items) <= 1 THEN items
    ELSE <<Head(items), ", ">> \o Commas(Tail(items))

\* The value of a labeled line: a string as it is, a list joined (or serialized),
\* a dict serialized, an int in decimal.
Shown(v, serialized) ==
    CASE v.tag = "str" -> <<v.s>>
      [] v.tag = "int" -> <<ToString(v.n)>>
      [] v.tag = "list" -> IF serialized THEN json_dumps(v) ELSE Commas(v.items)
      [] OTHER -> json_dumps(v)

\* The labeled lines of the fields of an entity, in the order of `fields`; each of
\* `fields` gives the field, its label, what follows the value, and whether a
\* collection is serialized.
RECURSIVE LabelledLines(_, _)
LabelledLines(entity, fields) ==
    IF fields = <<>> THEN <<>>
    ELSE LET fd == Head(fields)
             v == entity.f[fd.field]
         IN  (IF Present(v)
              THEN <<(<<fd.label>> \o Shown(v, fd.serialized)) \o fd.suffix>>
              ELSE <<>>)
             \o LabelledLines(entity, Tail(fields))

Line(field, label, suffix, serialized) ==
    [field |-> field, label |-> label, suffix |-> suffix, serialized |-> serialized]

CompanyLines ==
    <<Line("description", "Company Description: ", <<>>, FALSE),
      Line("specialties", "Company Specialties: ", <<>>, FALSE),
      Line("location", "Service Area: ", <<>>, FALSE),
      Line("years_in_business", "Experience: ", <<" years in business">>, FALSE),
      Line("mission_statement", "Mission: ", <<>>, FALSE),
      Line("values", "Company Values: ", <<>>, FALSE)>>

UserLines ==
    <<Line("name", "Client Name: ", <<>>, FALSE),
      Line("email", "Client Email: ", <<>>, FALSE),
      Line("phone", "Client Phone: ", <<>>, FALSE),
      Line("preferences", "Client Preferences: ", <<>>, TRUE),
      Line("previous_interactions", "Previous Interactions: ", <<>>, TRUE),
      Line("notes", "Additional Notes: ", <<>>, FALSE),
      Line("goals", "Client Goals: ", <<>>, FALSE),
      Line("budget", "Budget: ", <<>>, FALSE),
      Line("timeline", "Timeline: ", <<>>, FALSE)>>

LabelsOf(fields) == [j \in 1..Len(fields) |-> fields[j].label]

\* A config has been rendered to a prompt.
Rendered == IsConfig("config") /\ Has("prompt") /\ store.prompt.tag = "text"

\* C12. The company block has exactly one labeled line for each of description,
\* specialties, location, years_in_business, mission_statement and values that is
\* present and not empty, none for the others, in that order; every present
\* years_in_business yields its "Experience: N years in business" line.
C12_CompanyBlock ==
    Rendered =>
        Labelled(store.prompt.pieces, LabelsOf(CompanyLines))
            = LabelledLines(store.config.f.company_details, CompanyLines)

\* C13. The user block has exactly one labeled line for each of name, email, phone,
\* preferences, previous_interactions, notes, goals, budget and timeline that is
\* present and not empty, none for the others, in that order; demographics and
\* pain_points produce no line.
C13_UserBlock ==
    Rendered =>
        /\ Labelled(store.prompt.pieces, LabelsOf(UserLines))
               = LabelledLines(store.config.f.user_context, UserLines)
        /\ \A k \in {"demographics", "pain_points"} :
               LET v == store.config.f.user_context.f[k]
               IN  \A j \in 1..Len(store.prompt.pieces) :
                       /\ v.tag = "list" /\ v.items # <<>> =>
                             store.prompt.pieces[j] # v.items[1]
                       /\ v.tag = "dict" /\ v.map # <<>> =>
                             store.prompt.pieces[j] # v.map.key.s

\* A prompt of a user with every field set, demographics and pain_points included.
C13_Witness ==
    /\ Rendered
    /\ \A k \in UserContextParams : Present(store.config.f.user_context.f[k])

\* C14. Optional-field omission: the prompt of a config whose budget is absent has
\* no "Budget:" line, and the prompt of a config whose budget is a non-empty string
\* b has exactly one, which reads "Budget: b", whatever the other user fields are.
C14_BudgetLine ==
    Rendered =>
        LET budget == store.config.f.user_context.f.budget
            found == Labelled(store.prompt.pieces, <<"Budget: ">>)
        IN  /\ budget = PyNone => found = <<>>
            /\ budget.tag = "str" /\ budget.s # "" => found = <<(<<"Budget: ", budget.s>>)>>

\* A prompt with the budget as the only field of the user, and so with its line.
C14_Witness ==
    /\ Rendered
    /\ store.config.f.user_context.f.budget.tag = "str"
    /\ store.config.f.user_context.f.name = PyNone
    /\ Labelled(store.prompt.pieces, <<"Budget: ">>) # <<>>

\* The industries of the table, and the pieces of a text that are knowledge blocks.
IndustryTable == {"real estate", "insurance", "financial services", "healthcare"}
BlocksIn(text) ==
    {j \in 1..Len(text) : \E x \in DOMAIN knowledge_map : text[j] = knowledge_map[x]}

\* C15. Industry knowledge is an exact-match lookup: an industry of the table
\* selects its own block verbatim, every other industry (an unknown name, another
\* letter case, empty, absent) selects the "default" block verbatim, and exactly
\* one block is in the prompt.
C15_IndustryLookup ==
    Rendered =>
        LET industry == store.config.f.industry
            text == store.prompt.pieces
        IN  /\ Cardinality(BlocksIn(text)) = 1
            /\ \A j \in BlocksIn(text) :
                   text[j] = IF industry.tag = "str" /\ industry.s \in IndustryTable
                             THEN knowledge_map[industry.s]
                             ELSE knowledge_map["default"]

\* A prompt for the industry "Insurance", which the table holds in lower case.
C15_Witness == Rendered /\ store.config.f.industry = PyStr("Insurance")

\* The string a text is.
RECURSIVE Glue(_)
Glue(text) == IF text = <<>> THEN "" ELSE Head(text) \o Glue(Tail(text))

\* The personality string of a prompt: what its first sentence holds between
\* "You are <agent_name>, a " and " <industry> professional representing".
PersonalityIn(text, config) ==
    LET from == CHOOSE j \in 1..Len(text) : text[j] = ", a "
        to == CHOOSE j \in 1..Len(text) : text[j] = " professional representing "
    IN  Glue(SubSeq(text, from + 1, to - 2 - Len(Format(config.f.industry))))

\* C17. The personality string interpolated into the prompt is the traits joined
\* with ", " when there are traits, and "professional, friendly, and consultative"
\* when traits is empty or absent.
C17_PersonalityString ==
    Rendered =>
        LET traits == store.config.f.agent_personality.f.traits
        IN  PersonalityIn(store.prompt.pieces, store.config)
                = IF traits.tag = "list" /\ traits.items # <<>>
                  THEN Glue(Commas(traits.items))
                  ELSE "professional, friendly, and consultative"

\* A prompt of a personality with two traits.
C17_Witness ==
    /\ Rendered
    /\ store.config.f.agent_personality.f.traits.tag = "list"
    /\ Len(store.config.f.agent_personality.f.traits.items) = 2

(***************************************************************************)
(* Claim on the entities of a constructed config (SpecDict).               *)
(***************************************************************************)
\* C19. After construction every entity satisfies its default invariants: tone,
\* expertise_level and response_speed are strings that are not empty, priority is
\* not absent, follow_up_required is a boolean, and every collection field is a
\* collection (a list, or a dict for preferences and demographics), never absent.
C19_DefaultInvariants ==
    IsConfig("config") =>
        LET config == store.config
        IN  /\ \A k \in {"tone", "expertise_level", "response_speed"} :
                   LET v == config.f.agent_personality.f[k]
                   IN  v.tag = "str" /\ v # PyStr("")
            /\ config.f.call_context.f.priority # PyNone
            /\ config.f.call_context.f.follow_up_required.tag = "bool"
            /\ \A slot \in FieldSlots :
                   /\ slot[2] \in ListFields =>
                         FieldOf(config, slot[1], slot[2]).tag = "list"
                   /\ slot[2] \in DictFields =>
                         FieldOf(config, slot[1], slot[2]).tag = "dict"

(***************************************************************************)
(* Strict direct construction against the lenient dict-based paths.        *)
(***************************************************************************)
\* The parameters a constructor requires, "" for AgentConfig.
RequiredParams(c) == IF c = "" THEN AgentConfigRequired ELSE RequiredOf(c)

\* The literal the legacy adapter puts where the metadata lacks a key.
LegacyLiteral(path) ==
    CASE path = <<"agent_config", "agent_name">> -> PyStr("Professional Assistant")
      [] path = <<"agent_config", "company_name">> -> PyStr("Our Company")
      [] path = <<"call_purpose">> -> PyStr("general inquiry")
      [] path = <<"agent_config", "agent_personality", "communication_style">> ->
             PyStr("warm and professional")
      [] path = <<"agent_config", "agent_personality", "traits">> ->
             PyList(<<>>, <<"professional", "friendly", "consultative">>)

\* The field of a config that a key of the legacy metadata feeds.
LegacyTarget(config, path) ==
    CASE path = <<"agent_config", "agent_name">> -> config.f.agent_name
      [] path = <<"agent_config", "company_name">> -> config.f.company_details.f.name
      [] path = <<"call_purpose">> -> config.f.call_context.f.purpose
      [] path = <<"agent_config", "agent_personality", "communication_style">> ->
             config.f.agent_personality.f.communication_style
      [] path = <<"agent_config", "agent_personality", "traits">> ->
             config.f.agent_personality.f.traits

LiteralAt(entity, c, k) == Erase(entity.f[k]) = Erase(DefaultOf(c, k))

\* C18: a constructor call that omits a required keyword (name of CompanyDetails,
\* purpose of CallContext, traits or communication_style of AgentPersonality,
\* agent_name or a sub-entity of AgentConfig) raises TypeError and binds no
\* object, and a call that omits an optional keyword returns the object; from_dict
\* of an entity or of the config and from_legacy_metadata, given the mapping without
\* the same key, return the object with the literal default in that field.
C18_StrictConstruction ==
    Has("result") =>
        LET r == store.result
            p == last.src
            c == IF Len(p) = 2 THEN p[1] ELSE ""
            k == p[Len(p)]
        IN  CASE last.op = "construct" ->
                    IF k \in RequiredParams(c)
                    THEN r = Raised("TypeError")
                    ELSE r.tag = (IF c = "" THEN "AgentConfig" ELSE ClassOf(c))
              [] last.op = "entity_from_dict" ->
                    /\ r.tag = ClassOf(c)
                    /\ k \in RequiredOf(c) => LiteralAt(r, c, k)
              [] last.op = "from_dict" ->
                    /\ Complete(r)
                    /\ p = <<"agent_name">> => LiteralAt(r, "", "agent_name")
                    /\ c # "" /\ k \in RequiredOf(c) => LiteralAt(r.f[c], c, k)
                    /\ c = "" /\ k \in EntityKeys =>
                           \A x \in RequiredOf(k) : LiteralAt(r.f[k], k, x)
              [] last.op = "from_legacy_metadata" ->
                    /\ Complete(r)
                    /\ Len(p) > 1 \/ p = <<"call_purpose">> =>
                           \/ p[Len(p)] \in {"company_details", "agent_personality"}
                           \/ Erase(LegacyTarget(r, p)) = Erase(LegacyLiteral(p))
                    /\ p = <<"agent_config">> =>
                           \A q \in {x \in LegacyRequired : Len(x) > 1 /\ x[Len(x)] \notin
                                          {"company_details", "agent_personality"}} :
                               Erase(LegacyTarget(r, q)) = Erase(LegacyLiteral(q))
                    /\ p = <<"agent_config", "agent_personality">> =>
                           \A q \in {x \in LegacyRequired : Len(x) = 3} :
                               Erase(LegacyTarget(r, q)) = Erase(LegacyLiteral(q))

\* CallContext(...) without purpose raised TypeError.
C18_Witness ==
    /\ last.op = "construct"
    /\ last.src = <<"call_context", "purpose">>
    /\ Has("result")
    /\ IsRaised(store.result)


(***************************************************************************)
(* Rendering as a function of the config's fields, and its totality.       *)
(***************************************************************************)
\* C16: two renderings of the same config are the same text, and so are the
\* renderings of two configs that are field-for-field equal, whatever was
\* constructed or rendered in between.
C16_PromptDeterminism ==
    /\ Has("prompt") /\ Has("again") => store.prompt = store.again
    /\ /\ IsConfig("config") /\ IsConfig("twin")
       /\ SameFields(store.config, store.twin)
       /\ Has("prompt") /\ Has("other")
       => store.prompt = store.other

\* C20: build_prompt returns a text for every AgentConfig constructed directly,
\* by from_dict, by from_legacy_metadata or by the builder.
C20_RenderingNeverFails ==
    \A name \in {"prompt", "again", "other"} : Has(name) => store[name].tag = "text"


(***************************************************************************)
(* The legacy entry point.                                                 *)
(***************************************************************************)
\* C21: get_prompt returns, for any arguments, the text build_prompt produces for
\* a config of the given agent name: a text that begins "You are <agent_name>".
C21_LegacyPrompt ==
    Has("prompt") =>
        /\ store.prompt.tag = "text"
        /\ OccursAt(store.prompt.pieces, <<"You are ">> \o Format(store.agent_name), 1)


(***************************************************************************)
(* The builder against direct construction.                                *)
(***************************************************************************)
\* C22: the config built after every setter was called once, in any order, is
\* field-for-field equal to the config constructed directly from the same entities
\* and scalars.
C22_BuilderAgreesWithDirect ==
    Has("built") /\ Has("config") =>
        /\ IsConfig("built") /\ IsConfig("config")
        /\ SameFields(store.built, store.config)

\* Both configs exist, built from None-valued entities and falsy scalars.
C22_Witness ==
    /\ IsConfig("built") /\ IsConfig("config")
    /\ store.kind = PyStr("falsy")
    /\ store.config.f.agent_personality.f.traits = PyNone


(***************************************************************************)
(* The fields the legacy adapter leaves at their defaults.                 *)
(***************************************************************************)
\* The fields of each entity that the adapter passes to its constructor.
LegacyReads(c) ==
    CASE c = "company_details" ->
            {"name", "description", "specialties", "location", "years_in_business"}
      [] c = "agent_personality" -> {"traits", "communication_style"}
      [] c = "call_context" -> {"purpose"}
      [] c = "user_context" ->
            {"name", "email", "phone", "preferences", "previous_interactions", "notes"}

\* C23: whatever the metadata contains, the config of from_legacy_metadata has
\* language "en", no timezone, no compliance requirements, every field of an entity
\* that the adapter does not read at its default, and the company's name from
\* agent_config.company_name ("Our Company" when absent), never from
\* agent_config.company_details.name.
C23_LegacyFrame ==
    IsConfig("config") =>
        LET config == store.config
        IN  /\ config.f.language = PyStr("en")
            /\ config.f.timezone = PyNone
            /\ Erase(config.f.compliance_requirements) = EmptyList
            /\ \A c \in EntityKeys : \A k \in ParamsOf(c) \ LegacyReads(c) :
                   Erase(config.f[c].f[k]) = Erase(DefaultOf(c, k))
            /\ LET given == ValueAt(store.metadata, <<"agent_config", "company_name">>)
               IN  config.f.company_details.f.name =
                       IF given = Absent THEN PyStr("Our Company") ELSE given

\* A config made from a metadata that names a language, a timezone, a call
\* priority and a company_details.name other than company_name.
C23_Witness ==
    /\ IsConfig("config")
    /\ Truthy(ValueAt(store.metadata, <<"language">>))
    /\ Truthy(ValueAt(store.metadata, <<"agent_config", "timezone">>))
    /\ Truthy(ValueAt(store.metadata, <<"call_context", "priority">>))
    /\ Truthy(ValueAt(store.metadata, <<"agent_config", "company_details", "name">>))
    /\ ValueAt(store.metadata, <<"agent_config", "company_details", "name">>)
           # ValueAt(store.metadata, <<"agent_config", "company_name">>)


(***************************************************************************)
(* The call job: the function tools and the outbound setup.                *)
(***************************************************************************)
ToolEvents ==
    {"generate_reply:transfer", "transfer_sip_participant",
     "transfer_sip_participant:error", "AttributeError",
     "generate_reply:error", "wait_for_playout", "delete_room"}
IsToolEvent(e) == e \in ToolEvents

\* What the running (or last) tool has requested and awaited so far.
ToolLog == SelectSeq(SubSeq(call.log, call.mark + 1, Len(call.log)), IsToolEvent)
Finished(tool) == call.pc # "none" /\ call.tool = tool /\ call.at \in {"returned", "raised"}
Ends(log, e) == log # <<>> /\ log[Len(log)] = e

\* C24: in both implementations end_call never raises and has deleted the room
\* when it returns, whether or not set_participant was called before, and it
\* deletes the room only when no speech of the agent is playing.
C24_EndCallHangsUp ==
    /\ [](Finished("end_call") => call.at = "returned" /\ Ends(ToolLog, "delete_room"))
    /\ [][call.pc # "none" /\ call'.tool = "end_call" /\ Len(call'.log) > Len(call.log)
             /\ Ends(call'.log, "delete_room")
           => call.speech # "playing"]_vars


\* The position of the first occurrence of an event in the log, 0 when none.
At(e) == IF \E j \in 1..Len(call.log) : call.log[j] = e
         THEN CHOOSE j \in 1..Len(call.log) :
                  call.log[j] = e /\ \A x \in 1..(j - 1) : call.log[x] # e
         ELSE 0

\* C25: in both setups the participant is set only after create_sip_participant
\* returned, then the session-start task completed, then wait_for_participant
\* returned; it is unset in every state before, and set_participant is called with
\* the identity that was dialled.
C25_SetParticipantLast ==
    call.pc # "none" =>
        /\ call.participant # PyNone <=> At("set_participant") > 0
        /\ At("set_participant") > 0 =>
               /\ 0 < At("create_sip_participant")
               /\ At("create_sip_participant") < At("session_started")
               /\ At("session_started") < At("wait_for_participant")
               /\ At("wait_for_participant") < At("set_participant")
               /\ call.session = "started"
               /\ call.participant = Identity(call.setup)

\* OutboundCaller.outbound_call has set the participant.
C25_Witness ==
    /\ call.pc = "returned"
    /\ call.setup = "outbound_call"
    /\ call.participant = PyStr("participant_+15550123")

\* C26: when create_sip_participant fails with a TwirpError, the setup returns
\* (the error is caught), ctx.shutdown() was called exactly once, and
\* set_participant is never called.
C26_DialFailure ==
    call.pc # "none" /\ At("create_sip_participant:TwirpError") > 0 =>
        /\ call.pc = "returned"
        /\ Len(SelectSeq(call.log, LAMBDA e : e = "shutdown")) = 1
        /\ At("create_sip_participant:TwirpError") < At("shutdown")
        /\ At("set_participant") = 0
        /\ call.participant = PyNone

\* The dial failed in entrypoint and the job was shut down.
C26_Witness ==
    /\ call.pc = "returned"
    /\ call.setup = "entrypoint"
    /\ At("shutdown") > 0


Occurs(log, e) == \E j \in 1..Len(log) : log[j] = e

\* C27: transfer_call with transfer_to None or "" returns "cannot transfer call"
\* having requested nothing (no reply, no SIP transfer, no room deletion); with
\* a non-empty transfer_to its first request is the reply that tells the user of
\* the transfer, before any SIP transfer request.
C27_TransferGuard ==
    call.pc # "none" /\ call.tool = "transfer_call" =>
        IF call.transfer_to \in {PyNone, PyStr("")}
        THEN /\ call.at = "returned"
             /\ call.result = PyStr("cannot transfer call")
             /\ ToolLog = <<>>
        ELSE /\ ToolLog # <<>>
             /\ ToolLog[1] = "generate_reply:transfer"
             /\ call.result # PyStr("cannot transfer call")

\* transfer_call refused an empty transfer_to.
C27_Witness ==
    /\ Finished("transfer_call")
    /\ call.transfer_to = PyStr("")
    /\ call.result = PyStr("cannot transfer call")

\* C28: transfer_call deletes the room if and only if the SIP transfer request
\* failed: the room is deleted only after a failed request and the error reply,
\* and when transfer_call has returned after a failed request the room is deleted.
C28_HangupIffTransferFails ==
    call.pc # "none" /\ call.tool = "transfer_call" =>
        /\ Occurs(ToolLog, "delete_room") =>
               /\ Occurs(ToolLog, "transfer_sip_participant:error")
               /\ ToolLog[Len(ToolLog) - 1] = "generate_reply:error"
        /\ call.at = "returned" /\ Occurs(ToolLog, "transfer_sip_participant:error") =>
               Ends(ToolLog, "delete_room")


(***************************************************************************)
(* The spoken part of a structured answer.                                 *)
(***************************************************************************)
\* C29: as long as the "response" of each text that parsed began with the one
\* before, the strings yielded so far, concatenated, are the "response" of the
\* last text that parsed; no yielded string is empty and none holds a letter of
\* voice_instructions; and a chunk after which the accumulated text does not
\* parse is added to the accumulator and yields nothing.
C29_SpokenPartOnly ==
    /\ [](stream.pc = "running" =>
            /\ stream.extends => Flatten(stream.yielded) = stream.parsed
            /\ \A j \in 1..Len(stream.yielded) :
                   /\ stream.yielded[j] # <<>>
                   /\ \A x \in 1..Len(stream.yielded[j]) :
                          stream.yielded[j][x] \in ResponseLetters)
    /\ [][stream.pc = "running" /\ IsRaised(from_json(stream'.acc_text)) =>
             /\ stream'.yielded = stream.yielded
             /\ Len(stream'.acc_text) >= Len(stream.acc_text)
             /\ stream'.acc_text \o stream'.rest = stream.acc_text \o stream.rest]_vars

\* The response "ab" was yielded in two parts, after voice_instructions "xy".
C29_Witness ==
    /\ stream.pc = "running"
    /\ stream.yielded = << <<"a">>, <<"b">> >>
    /\ stream.rest = <<>>
    /\ ~IsRaised(from_json(stream.acc_text))
    /\ DictGetD(from_json(stream.acc_text).map, <<"voice_instructions">>, <<>>)
           = <<"x", "y">>


=============================================================================
